---- MODULE Spec2Model ----
(***************************************************************************)
(* A model of the agent runtime of xvadur/scaling-chainsaw: the topic bus  *)
(* (src/src/agents/agent_bus.py), the error/retry handler                  *)
(* (src/src/agents/error_handler.py) and the agent execution lifecycle     *)
(* (src/src/agents/aethero_agent_bootstrap.py).                            *)
(*                                                                         *)
(* Everything runs on one asyncio event loop.  A coroutine is suspended    *)
(* only where an awaited call really yields: inside a user callback,       *)
(* inside process_task and in asyncio.sleep.  `await queue.put(msg)` on    *)
(* the unbounded asyncio.Queue() the bus creates never yields (put() only  *)
(* waits while the queue is full), so one action of the model is the code  *)
(* between two such yields.                                                *)
(***************************************************************************)
EXTENDS Integers, Sequences, FiniteSets, TLC

\* ------------------------------------------------------------------ bounds
MaxPublish   == 2      \* Message objects constructed in one run
MaxSubs      == 2      \* subscribe() and add_subscriber() calls in one run
MaxClock     == 1      \* readings of datetime.now() range over 0..MaxClock

Procs    == {1, 2}                      \* coroutines the event loop runs
Agents   == {"a1", "a2"}
AgentTopics == {"a1_output", "a2_output"}
\* the topics of the history calls: any string is a topic, the empty one too
HistTopics == {"", "a1_output"}
Topics   == AgentTopics \cup HistTopics
Contents == {"x", "bad"}                \* message payloads; "bad" is one that
                                        \* json.dumps cannot serialise
NoTags   == "none"
Tags     == {"ctx"}                     \* asl_tags / asl_context values
\* an optional number: None, or <<n>> for the number n
None     == << >>
Some(n)  == <<n>>
NoTopic  == "None"                      \* None where a topic name is expected

\* f"{self.agent_id}_output"
OutputTopic(a) == IF a = "a1" THEN "a1_output" ELSE "a2_output"

\* behaviours of a callback subscriber: returns, raises an Exception, or
\* publishes to its own topic before it returns
CallbackKinds == {"ok", "fail", "republish"}

VARIABLES
  topics,            \* AgentBus.topics: topic -> list of queues (queue ids)
  queues,            \* contents of every asyncio.Queue created by subscribe
  subscribers,       \* AgentBus.subscribers: topic -> list of callbacks
  message_history,   \* AgentBus.message_history: topic -> list of Message
  clock,             \* the last reading of datetime.now()
  timing,            \* "frozen": every reading of the run is the same instant;
                     \* "running": the wall clock runs, and may be set back,
                     \* between readings
  stack,             \* per coroutine: the publish calls it is inside
  calls,             \* history variable: per topic, the publish calls in call order
  got,               \* history variable: per queue, what queue.get() returned
  subAt,             \* history variable: per queue, calls on its topic before subscribe
  histBase,          \* history variable: per topic, calls before the last clear
  cbAt,              \* history variable: per callback, calls on its topic before it
                     \* was registered
  cbLog,             \* history variable: per callback, the messages it has gone on
                     \* with after its first yield
  cbStart,           \* history variable: per callback, the messages it was
                     \* called with, in the order of the calls
  returned,          \* history variable: ids whose publish returned normally
  raised,            \* history variable: ids whose publish raised
  errLog             \* logger.error records of the bus

busVars == <<topics, queues, subscribers, message_history, clock, timing, stack,
             calls, got, subAt, histBase, cbAt, cbLog, cbStart, returned, raised,
             errLog>>

VARIABLES
  error_handlers,          \* ErrorHandler.error_handlers: error type -> handler
  retry_policies,          \* ErrorHandler.retry_policies: agent id -> policy
  notification_callbacks,  \* ErrorHandler.notification_callbacks
  eh,                      \* the handle_error call in progress, if any
  life                     \* history variable: the handle_error calls made for
                           \* the task at hand, with what each did

ehVars == <<error_handlers, retry_policies, notification_callbacks, eh, life>>

VARIABLES
  exec,              \* per coroutine: the execute_task call it is running, or
                     \* the one that has just ended
  outcomes,          \* history variable: what asyncio.gather has collected
                     \* from the execute_task calls that are over
  status             \* per agent: BaseAetheroAgent.status

agVars == <<exec, outcomes, status>>

VARIABLES
  agent_metrics,     \* AetheroMonitor.agent_metrics: agent id -> AgentMetrics
  system_metrics,    \* AetheroMonitor.system_metrics: list of SystemMetrics
  alert_callbacks,   \* AetheroMonitor.alert_callbacks
  running,           \* AetheroMonitor.running
  mon,               \* the start_monitoring call: where it is, and what its
                     \* current loop iteration has done
  updated,           \* history variable: per agent, the payloads of its last two
                     \* update_agent_metrics calls and the time of the last one
  stoppedAt          \* history variable: where start_monitoring was, and how
                     \* many samples there were, when the flag was cleared

monVars == <<agent_metrics, system_metrics, alert_callbacks, running, mon,
             updated, stoppedAt>>

VARIABLES
  content,           \* the text parse() is called with
  parser_tags,       \* ASLParser.tags as dictionaries: what parse() returns
  parts,             \* history variable: the pieces the text was written from
  origin,            \* history variable: per tag, the number of the match of
                     \* the tag pattern it was made from
  parsed             \* parse() has returned

parVars == <<content, parser_tags, parts, origin, parsed>>

VARIABLES
  mb_topics,         \* MessageBus.topics of the bus an agent makes for itself:
                     \* topic -> list of enriched messages
  mb_queues          \* the queues its subscribe() has returned: their content,
                     \* and as history the topic asked for and the length of
                     \* the topic's list then

mbVars == <<mb_topics, mb_queues>>

vars == <<busVars, ehVars, agVars, monVars, parVars, mbVars>>

Range(s) == {s[i] : i \in 1..Len(s)}

\* ------------------------------------------------------------- Message
\* Message(topic, content, asl_tags): timestamp is filled by __post_init__;
\* id stands for the identity of the Python object (topic, number of the call).
Message(id, t, c, tags, ts) ==
  [id |-> id, topic |-> t, content |-> c, asl_tags |-> tags, timestamp |-> ts]

\* datetime.now(): what the next reading can be.  It is the naive local wall
\* clock, not a monotonic one: a reading can be earlier than the one before
\* (the end of daylight saving time, a step by the time service).
Now == IF timing = "running" THEN 0..MaxClock ELSE {clock}

\* ------------------------------------------------------------- publish
\* json.dumps(message) in the log line raises for a payload that is not
\* serialisable
Serialisable(c) == c # "bad"

\* self.message_history[topic].append(msg), creating the list when absent
StoreTwice(hist, t, msg) ==
  IF t \in DOMAIN hist THEN [hist EXCEPT ![t] = @ \o <<msg, msg>>]
  ELSE hist @@ (t :> <<msg, msg>>)

StoreFront(hist, t, msg) ==
  IF t \in DOMAIN hist THEN [hist EXCEPT ![t] = <<msg>> \o @]
  ELSE hist @@ (t :> <<msg>>)

Store(hist, t, msg) ==
  IF t \in DOMAIN hist THEN [hist EXCEPT ![t] = Append(@, msg)]
  ELSE hist @@ (t :> <<msg>>)

\* for queue in self.topics[topic]: await queue.put(msg)
DeliverAll(qs, tps, t, msg) == [q \in DOMAIN qs |-> Append(qs[q], msg)]

DeliverFirst(qs, tps, t, msg) ==
  IF t \in DOMAIN tps /\ tps[t] # <<>>
  THEN [qs EXCEPT ![tps[t][1]] = Append(@, msg)]
  ELSE qs

DeliverLifo(qs, tps, t, msg) ==
  IF t \in DOMAIN tps
  THEN [q \in DOMAIN qs |->
          IF q \in Range(tps[t]) THEN <<msg>> \o qs[q] ELSE qs[q]]
  ELSE qs

Deliver(qs, tps, t, msg) ==
  IF t \in DOMAIN tps
  THEN [q \in DOMAIN qs |->
          IF q \in Range(tps[t]) THEN Append(qs[q], msg) ELSE qs[q]]
  ELSE qs

\* `if topic in self.subscribers: for callback in self.subscribers[topic]`
Callbacks(subs, t) == IF t \in DOMAIN subs THEN subs[t] ELSE <<>>

\* `except Exception` around `await callback(msg)`
CaughtNever(kind) == FALSE

Caught(kind) == kind = "fail"

\* ------------------------------------------------------------- get_history
\* messages[-limit:] of Python, for any integer limit other than 0
LastSlice(m, limit) ==
  IF limit > 0
  THEN (IF limit >= Len(m) THEN m ELSE SubSeq(m, Len(m) - limit + 1, Len(m)))
  ELSE (IF -limit >= Len(m) THEN <<>> ELSE SubSeq(m, 1 - limit, Len(m)))

\* get_history(topic, limit): `if limit:` is false for None and for 0
GetHistory(t, limit) ==
  IF t \notin DOMAIN message_history THEN <<>>
  ELSE IF limit # None /\ limit[1] # 0 THEN LastSlice(message_history[t], limit[1])
  ELSE message_history[t]

\* ------------------------------------------------------------- bus actions
\* The bus after the calls subscribe(qs[1]), subscribe(qs[2]), ... and
\* add_subscriber(cs[1][1], cs[1][2]), ... on a new AgentBus(), in a run
\* whose clock is `mode`
InitBusAt(qs, cs, mode) ==
  LET OnTopic(t) == {i \in 1..Len(qs) : qs[i] = t}
      Ordered(S) == SelectSeq([i \in 1..Len(qs) |-> i], LAMBDA i : i \in S)
      Kinds(t)   == LET picked == SelectSeq(cs, LAMBDA c : c[1] = t)
                    IN [i \in 1..Len(picked) |-> picked[i][2]]
      withQueue  == {qs[i] : i \in 1..Len(qs)}
      withCb     == {cs[i][1] : i \in 1..Len(cs)}
  IN /\ topics = IF withQueue = {} THEN << >>
                 ELSE [t \in withQueue |-> Ordered(OnTopic(t))]
     /\ queues = [i \in 1..Len(qs) |-> << >>]
     /\ subscribers = IF withCb = {} THEN << >> ELSE [t \in withCb |-> Kinds(t)]
     /\ message_history = << >>
     /\ clock = 0
     /\ timing = mode
     /\ stack = [p \in Procs |-> << >>]
     /\ calls = [t \in Topics |-> << >>]
     /\ got = [i \in 1..Len(qs) |-> << >>]
     /\ subAt = [i \in 1..Len(qs) |-> 0]
     /\ histBase = [t \in Topics |-> 0]
     /\ cbAt = [t \in Topics |-> [i \in 1..Len(Kinds(t)) |-> 0]]
     /\ cbLog = [t \in Topics |-> [i \in 1..Len(Kinds(t)) |-> << >>]]
     /\ cbStart = [t \in Topics |-> [i \in 1..Len(Kinds(t)) |-> << >>]]
     /\ returned = {}
     /\ raised = {}
     /\ errLog = {}

InitBusWith(qs, cs) == InitBusAt(qs, cs, "frozen")

\* AgentBus(): no queue, no callback, no history
InitBus == InitBusWith(<< >>, << >>)

\* the same, in a run in which time passes
InitBusRunning == InitBusAt(<< >>, << >>, "running")

\* the subscribe and add_subscriber calls a test makes before it runs tasks
Wirings ==
  LET Seqs(S) == UNION {[1..n -> S] : n \in 0..MaxSubs}
  IN {w \in Seqs(AgentTopics) \X Seqs(AgentTopics \X CallbackKinds) :
        Len(w[1]) + Len(w[2]) <= MaxSubs}

\* Message objects constructed so far
NCalls == Len(calls["a1_output"]) + Len(calls["a2_output"]) + Len(calls[""])

\* the coroutine that runs a new top-level call: coroutines have no identity
\* of their own, so the first idle one is taken
Free(p) == stack[p] = << >> /\ exec[p].pc = "idle"

\* No execute_task call has just ended.  The caller of one that has goes on
\* without yielding, so it takes the outcome (Resume) before anything else
\* runs.
Settled == \A p \in Procs : exec[p].pc \notin {"returned", "raised"}

Idle(p) == Free(p) /\ \A o \in Procs : Free(o) => ~(o < p)

\* a publish call suspended in its callback loop: `i` is the callback it is
\* in, `done` that the loop's iterator has found no further callback
Frame(t, msg) == [topic |-> t, msg |-> msg, i |-> 1, done |-> FALSE]

Top(stk) == stk[Len(stk)]
Pop(stk) == SubSeq(stk, 1, Len(stk) - 1)

\* The callback on top of `stk` has returned or its failure was logged, and
\* the `for` of line 61 asks the list for its next element in the same step:
\* a callback registered after the list ran out is not called.
NextCallback(stk) ==
  LET f == stk[Len(stk)]
  IN [stk EXCEPT ![Len(stk)] =
        [f EXCEPT !.i = @ + 1,
                  !.done = f.i + 1 > Len(Callbacks(subscribers, f.topic))]]

\* `await callback(msg)`, line 63, for callback i of topic t, if there is one:
\* the call runs the callback up to its first yield
Invoke(log, t, i, id) ==
  IF i <= Len(Callbacks(subscribers, t))
  THEN [log EXCEPT ![t][i] = Append(@, id)]
  ELSE log

\* The part of publish() up to its first yield, entered by coroutine p with
\* the frames `stk` of the publish calls it is already inside: lines 37-57,
\* and lines 67-69 when json.dumps raises.  A publish on a topic without
\* callbacks returns here.
PublishBody(p, stk, t, c, tags) ==
  \E ts \in Now :
    LET id  == <<t, Len(calls[t]) + 1>>
        msg == Message(id, t, c, tags, ts)
    IN /\ clock' = ts
       /\ calls' = [calls EXCEPT ![t] = Append(@, [id |-> id, content |-> c])]
       /\ IF ~Serialisable(c)
          THEN /\ errLog' = errLog \cup {[error |-> "Error publishing message", id |-> id]}
               /\ raised' = raised \cup {id}
               /\ stack' = [stack EXCEPT ![p] = stk]
               /\ UNCHANGED <<message_history, queues, returned, cbStart>>
          ELSE /\ message_history' = Store(message_history, t, msg)
               /\ queues' = Deliver(queues, topics, t, msg)
               /\ cbStart' = Invoke(cbStart, t, 1, id)
               /\ IF Callbacks(subscribers, t) = << >>
                  THEN /\ returned' = returned \cup {id}
                       /\ stack' = [stack EXCEPT ![p] = stk]
                  ELSE /\ returned' = returned
                       /\ stack' = [stack EXCEPT ![p] = Append(stk, Frame(t, msg))]
               /\ UNCHANGED <<errLog, raised>>

\* await bus.publish(topic, message, asl_tags) called by a coroutine that is
\* not inside another publish
Publish(p, t, c) ==
  /\ Settled
  /\ Idle(p)
  /\ UNCHANGED <<ehVars, agVars, monVars, parVars, mbVars>>
  /\ NCalls < MaxPublish
  /\ PublishBody(p, stack[p], t, c, NoTags)
  /\ UNCHANGED <<topics, subscribers, timing, got, subAt, histBase, cbAt, cbLog>>

\* One iteration of the callback loop, lines 61-65: `await callback(msg)`.
\* The callback may yield, so other coroutines run between two iterations.
\* A "republish" callback awaits bus.publish(msg.topic, msg.content, ...)
\* while the run has Message objects left, and then just returns.
Notify(p) ==
  /\ Settled
  /\ stack[p] # << >>
  /\ UNCHANGED <<ehVars, agVars, monVars, parVars, mbVars>>
  /\ LET f    == Top(stack[p])
         cbs  == Callbacks(subscribers, f.topic)
     IN /\ ~f.done
        /\ cbLog' = [cbLog EXCEPT ![f.topic][f.i] = Append(@, f.msg.id)]
        /\ IF cbs[f.i] = "republish" /\ NCalls < MaxPublish
           THEN PublishBody(p, stack[p], f.topic, f.msg.content, f.msg.asl_tags)
           ELSE /\ UNCHANGED <<message_history, queues, clock, calls, returned>>
                /\ cbStart' = IF cbs[f.i] = "fail" /\ ~Caught(cbs[f.i])
                              THEN cbStart
                              ELSE Invoke(cbStart, f.topic, f.i + 1, f.msg.id)
                /\ IF cbs[f.i] = "fail"
                   THEN IF Caught(cbs[f.i])
                        THEN /\ errLog' = errLog \cup
                                  {[error |-> "Subscriber callback failed", id |-> f.msg.id]}
                             /\ stack' = [stack EXCEPT ![p] = NextCallback(@)]
                             /\ raised' = raised
                        ELSE \* lines 67-69, in every publish p is inside
                             /\ errLog' = errLog \cup
                                  {[error |-> "Error publishing message", id |-> f.msg.id]}
                             /\ raised' = raised \cup
                                  {stack[p][k].msg.id : k \in 1..Len(stack[p])}
                             /\ stack' = [stack EXCEPT ![p] = << >>]
                   ELSE /\ stack' = [stack EXCEPT ![p] = NextCallback(@)]
                        /\ UNCHANGED <<raised, errLog>>
  /\ UNCHANGED <<topics, subscribers, timing, got, subAt, histBase, cbAt>>

\* The callback loop is exhausted and publish() returns.  A publish awaited
\* by a callback returns into that callback, which then returns itself.
PublishReturn(p) ==
  /\ Settled
  /\ stack[p] # << >>
  /\ ~(exec[p].pc = "publishing" /\ Len(stack[p]) = 1)
  /\ UNCHANGED <<ehVars, agVars, monVars, parVars, mbVars>>
  /\ LET f == Top(stack[p])
     IN /\ f.done
        /\ returned' = returned \cup {f.msg.id}
        /\ stack' = [stack EXCEPT ![p] =
                       IF Len(@) > 1 THEN NextCallback(Pop(@)) ELSE << >>]
        /\ cbStart' = IF Len(stack[p]) > 1
                      THEN LET o == Top(Pop(stack[p]))
                           IN Invoke(cbStart, o.topic, o.i + 1, o.msg.id)
                      ELSE cbStart
  /\ UNCHANGED <<topics, queues, subscribers, message_history, clock, timing,
                 calls, got, subAt, histBase, cbAt, cbLog, raised, errLog>>

NCallbacks == LET n[S \in SUBSET Topics] ==
                    IF S = {} THEN 0
                    ELSE LET t == CHOOSE x \in S : TRUE
                         IN Len(subscribers[t]) + n[S \ {t}]
              IN n[DOMAIN subscribers]

\* subscribe(topic): a new queue, registered last in the topic's list
Subscribe(t) ==
  /\ Settled
  /\ UNCHANGED <<ehVars, agVars, monVars, parVars, mbVars>>
  /\ Len(queues) + NCallbacks < MaxSubs
  /\ LET q == Len(queues) + 1
     IN /\ topics' = IF t \in DOMAIN topics
                     THEN [topics EXCEPT ![t] = Append(@, q)]
                     ELSE topics @@ (t :> <<q>>)
        /\ queues' = Append(queues, << >>)
        /\ got' = Append(got, << >>)
        /\ subAt' = Append(subAt, Len(calls[t]))
  /\ UNCHANGED <<subscribers, message_history, clock, timing, stack, calls, histBase,
                 cbAt, cbLog, cbStart, returned, raised, errLog>>

\* add_subscriber(topic, callback)
AddSubscriber(t, kind) ==
  /\ Settled
  /\ UNCHANGED <<ehVars, agVars, monVars, parVars, mbVars>>
  /\ Len(queues) + NCallbacks < MaxSubs
  /\ subscribers' = IF t \in DOMAIN subscribers
                    THEN [subscribers EXCEPT ![t] = Append(@, kind)]
                    ELSE subscribers @@ (t :> <<kind>>)
  /\ cbAt' = [cbAt EXCEPT ![t] = Append(@, Len(calls[t]))]
  /\ cbLog' = [cbLog EXCEPT ![t] = Append(@, << >>)]
  /\ cbStart' = [cbStart EXCEPT ![t] = Append(@, << >>)]
  /\ UNCHANGED <<topics, queues, message_history, clock, timing, stack, calls, got,
                 subAt, histBase, returned, raised, errLog>>

\* a consumer's `await queue.get()` on a queue that holds a message
Get(q) ==
  /\ Settled
  /\ UNCHANGED <<ehVars, agVars, monVars, parVars, mbVars>>
  /\ q \in DOMAIN queues
  /\ queues[q] # << >>
  /\ got' = [got EXCEPT ![q] = Append(@, Head(queues[q]))]
  /\ queues' = [queues EXCEPT ![q] = Tail(@)]
  /\ UNCHANGED <<topics, subscribers, message_history, clock, timing, stack, calls,
                 subAt, histBase, cbAt, cbLog, cbStart, returned, raised, errLog>>

\* `if topic:` of Python: false for None and for the empty string
Truthy(t) == t # NoTopic /\ t # ""

\* clear_history(topic) and clear_history()
ClearHistory(t) ==
  /\ Settled
  /\ UNCHANGED <<ehVars, agVars, monVars, parVars, mbVars>>
  /\ IF Truthy(t)
     THEN IF t \in DOMAIN message_history
          THEN /\ message_history' = [message_history EXCEPT ![t] = << >>]
               /\ histBase' = [histBase EXCEPT ![t] = Len(calls[t])]
          ELSE UNCHANGED <<message_history, histBase>>
     ELSE /\ message_history' = << >>
          /\ histBase' = [x \in Topics |-> Len(calls[x])]
  /\ UNCHANGED <<topics, queues, subscribers, clock, timing, stack, calls, got, subAt,
                 cbAt, cbLog, cbStart, returned, raised, errLog>>

\* what a consumer writes into a message it was handed
Edits == {"edited"}

\* The Message object `id` after `msg.content = c`, as seen through any
\* reference to it: publish puts the one object it constructed into the
\* history and into every queue, and hands it to every callback.
Shared(ms, id, c) ==
  [i \in 1..Len(ms) |-> IF ms[i].id = id THEN [ms[i] EXCEPT !.content = c] ELSE ms[i]]

\* the consumer of queue q modifies the message it took last
Modify(q, c) ==
  /\ Settled
  /\ UNCHANGED <<ehVars, agVars, monVars, parVars, mbVars>>
  /\ q \in DOMAIN got
  /\ got[q] # << >>
  /\ LET m == got[q][Len(got[q])]
     IN /\ m.content # c
        /\ message_history' =
             [t \in DOMAIN message_history |-> Shared(message_history[t], m.id, c)]
        /\ queues' = [r \in DOMAIN queues |-> Shared(queues[r], m.id, c)]
        /\ got' = [r \in DOMAIN got |-> Shared(got[r], m.id, c)]
        /\ stack' = [p \in Procs |->
                       [k \in 1..Len(stack[p]) |->
                          IF stack[p][k].msg.id = m.id
                          THEN [stack[p][k] EXCEPT !.msg.content = c]
                          ELSE stack[p][k]]]
  /\ UNCHANGED <<topics, subscribers, clock, timing, calls, subAt, histBase, cbAt,
                 cbLog, cbStart, returned, raised, errLog>>

(***************************************************************************)
(* The error/retry handler, src/src/agents/error_handler.py.               *)
(***************************************************************************)
MaxNotify     == 2     \* register_notification_callback() calls in one run
MaxRetryCount == 4     \* retry_count values a caller passes: 0..MaxRetryCount
DefaultMaxRetries == 3 \* policy.get("max_retries", 3)
DefaultDelay      == 1 \* policy.get("delay", 1)

ErrorTypes   == {"ValueError", "TaskError"}    \* type(error).__name__
\* The failures handled are ValueErrors of tasks of agent a1; handlers and
\* policies are registered for every error type and agent, which covers the
\* other failures by renaming.
FailingTypes  == {"ValueError"}
FailingAgents == {"a1"}
Tasks        == {"task_1"}
HandlerKinds == {"handles", "raises"}          \* a handler returns or raises
NotifyKinds  == {"ok", "fail"}                 \* a notification callback too
\* the policy dicts callers set; an absent key takes the default
Policies == { [max_retries |-> 3, delay |-> 1],
              [max_retries |-> 1],
              [delay |-> 2] }

\* ErrorContext; retry_count is additional_data.get("retry_count"), None when
\* the key is absent
ErrorContext(et, a, task, k) ==
  [error_type |-> et, message |-> "failed", agent_id |-> a, task_id |-> task,
   pipeline_id |-> "pipeline", timestamp |-> 0, retry_count |-> k]

\* dict.get(key, default)
DictGet(dict, key, default) == IF key \in DOMAIN dict THEN dict[key] ELSE default

RECURSIVE Pow2(_)
Pow2(k) == IF k = 0 THEN 1 ELSE 2 * Pow2(k - 1)

\* current_retry < max_retries
MayRetryOffByOne(current, max) == current <= max

MayRetry(current, max) == current < max

\* retry_delay = delay * (2 ** current_retry)
BackoffLinear(delay, current) == delay * (current + 1)

Backoff(delay, current) == delay * Pow2(current)

\* "retry_count": current_retry + 1
NextCountStuck(current) == current

NextCount(current) == current + 1

\* "next_retry_delay": retry_delay * 2
NextDelaySame(retry_delay) == retry_delay

NextDelay(retry_delay) == retry_delay * 2

\* the outcome _handle_retry returns after the back-off, lines 106-111
RetryOutcome(ctx, current, retry_delay) ==
  [status |-> "retry", retry_count |-> NextCount(current),
   next_retry_delay |-> NextDelay(retry_delay), task_id |-> ctx.task_id]

\* lines 113-118
ExhaustedOutcome(ctx) ==
  [status |-> "error", message |-> "Max retries exceeded",
   task_id |-> ctx.task_id, agent_id |-> ctx.agent_id]

\* lines 79-86
ErrorOutcome(ctx) ==
  [status |-> "error", error_type |-> ctx.error_type, message |-> ctx.message,
   timestamp |-> ctx.timestamp, task_id |-> ctx.task_id, agent_id |-> ctx.agent_id]

\* what example_error_handler returns, lines 137-143
HandledOutcome(ctx) ==
  [status |-> "handled", message |-> "Handled", task_id |-> ctx.task_id]

\* `if error_type in self.error_handlers`
HasHandlerNever(handlers, et) == FALSE

HasHandler(handlers, et) == et \in DOMAIN handlers

\* `if error_context.agent_id in self.retry_policies`
HasPolicyNever(policies, a) == FALSE

HasPolicy(policies, a) == a \in DOMAIN policies

\* `except Exception` around `await callback(notification)`
NotifyCaughtNever(kind) == FALSE

NotifyCaught(kind) == kind = "fail"

InitErr ==
  /\ error_handlers = << >>
  /\ retry_policies = << >>
  /\ notification_callbacks = << >>
  /\ eh = [pc |-> "idle"]
  /\ life = << >>

\* the ErrorContext after _handle_retry has read
\* error_context.additional_data.get("retry_count", 0), line 96: a read only
ContextCounted(ctx, current) == [ctx EXCEPT !.retry_count = Some(current + 1)]

ContextRead(ctx, current) == ctx

\* a handle_error call as it starts: what it was given and found registered
NewCall(ctx) ==
  [pc |-> "start", ctx |-> ctx,
   registered |-> IF ctx.error_type \in DOMAIN error_handlers
                  THEN error_handlers[ctx.error_type] ELSE "none",
   hadPolicy |-> ctx.agent_id \in DOMAIN retry_policies,
   handler |-> "none", slept |-> << >>, notified |-> << >>, i |-> 1,
   out |-> [status |-> "none"]]

\* handle_error from line 71 on, up to its next yield: the retry policy if the
\* agent has one (_handle_retry up to asyncio.sleep), else the notifications
Dispatch(c) ==
  IF HasPolicy(retry_policies, c.ctx.agent_id)
  THEN LET policy      == retry_policies[c.ctx.agent_id]
           max_retries == DictGet(policy, "max_retries", DefaultMaxRetries)
           delay       == DictGet(policy, "delay", DefaultDelay)
           current     == IF c.ctx.retry_count = None THEN 0 ELSE c.ctx.retry_count[1]
           retry_delay == Backoff(delay, current)
       IN IF MayRetry(current, max_retries)
          THEN [c EXCEPT !.pc = "sleeping",
                         !.ctx = ContextRead(@, current),
                         !.slept = Append(@, retry_delay),
                         !.out = RetryOutcome(c.ctx, current, retry_delay)]
          ELSE [c EXCEPT !.pc = "return", !.out = ExhaustedOutcome(c.ctx)]
  ELSE IF notification_callbacks = << >>
       THEN [c EXCEPT !.pc = "return", !.out = ErrorOutcome(c.ctx)]
       ELSE [c EXCEPT !.pc = "notifying", !.i = 1]

\* the call goes on as `c`: it has yielded, or it returns to its caller
Continue(c) ==
  IF c.pc \in {"return", "raise"}
  THEN /\ eh' = [pc |-> "idle"]
       /\ life' = Append(life, [c EXCEPT !.i = Len(notification_callbacks)])
  ELSE /\ eh' = c
       /\ life' = life

\* await handler.handle_error(ctx), lines 53-67: up to the handler's yield,
\* or through Dispatch when no handler is registered for the error type
Enter(ctx) ==
  LET c == NewCall(ctx)
  IN IF HasHandler(error_handlers, ctx.error_type)
     THEN [c EXCEPT !.pc = "handler", !.handler = "called"]
     ELSE Dispatch(c)

\* a caller hands a failure of a task to handle_error for the first time
HandleError(et, a, task, k) ==
  /\ eh.pc = "idle"
  /\ life = << >>
  /\ Continue(Enter(ErrorContext(et, a, task, k)))
  /\ UNCHANGED <<error_handlers, retry_policies, notification_callbacks>>
  /\ UNCHANGED <<busVars, agVars, monVars, parVars, mbVars>>

\* the caller re-ran the task, it failed again, and the caller passes back the
\* retry_count of the previous outcome
HandleErrorAgain ==
  /\ eh.pc = "idle"
  /\ life # << >>
  /\ LET last == life[Len(life)]
     IN /\ last.out.status = "retry"
        /\ Continue(Enter([last.ctx EXCEPT !.retry_count = Some(last.out.retry_count)]))
  /\ UNCHANGED <<error_handlers, retry_policies, notification_callbacks>>
  /\ UNCHANGED <<busVars, agVars, monVars, parVars, mbVars>>

\* the caller is done with the task: the last outcome was not a retry, or it
\* gives up
TaskOver ==
  /\ eh.pc = "idle"
  /\ life # << >>
  /\ life' = << >>
  /\ UNCHANGED <<error_handlers, retry_policies, notification_callbacks, eh>>
  /\ UNCHANGED <<busVars, agVars, monVars, parVars, mbVars>>

\* the registered handler returns, or raises: lines 67-69
HandlerDone ==
  /\ eh.pc = "handler"
  /\ IF eh.registered = "handles"
     THEN Continue([eh EXCEPT !.pc = "return", !.handler = "returned",
                              !.out = HandledOutcome(eh.ctx)])
     ELSE Continue(Dispatch([eh EXCEPT !.handler = "raised"]))
  /\ UNCHANGED <<error_handlers, retry_policies, notification_callbacks>>
  /\ UNCHANGED <<busVars, agVars, monVars, parVars, mbVars>>

\* asyncio.sleep(retry_delay) is over: lines 104-111
Wake ==
  /\ eh.pc = "sleeping"
  /\ Continue([eh EXCEPT !.pc = "return"])
  /\ UNCHANGED <<error_handlers, retry_policies, notification_callbacks>>
  /\ UNCHANGED <<busVars, agVars, monVars, parVars, mbVars>>

\* one iteration of the loop of _send_notifications, lines 130-134, and the
\* return of handle_error after the last one
Notification ==
  /\ eh.pc = "notifying"
  /\ LET kind == notification_callbacks[eh.i]
         c    == [eh EXCEPT !.notified = Append(@, eh.i), !.i = @ + 1]
     IN IF kind = "fail" /\ ~NotifyCaught(kind)
        THEN Continue([c EXCEPT !.pc = "raise"])
        ELSE IF c.i > Len(notification_callbacks)
        THEN Continue([c EXCEPT !.pc = "return", !.out = ErrorOutcome(eh.ctx)])
        ELSE Continue(c)
  /\ UNCHANGED <<error_handlers, retry_policies, notification_callbacks>>
  /\ UNCHANGED <<busVars, agVars, monVars, parVars, mbVars>>

\* register_error_handler(error_type, handler)
RegisterErrorHandler(et, kind) ==
  /\ error_handlers' = IF et \in DOMAIN error_handlers
                       THEN [error_handlers EXCEPT ![et] = kind]
                       ELSE error_handlers @@ (et :> kind)
  /\ UNCHANGED <<retry_policies, notification_callbacks, eh, life>>
  /\ UNCHANGED <<busVars, agVars, monVars, parVars, mbVars>>

\* set_retry_policy(agent_id, policy).  A policy is configuration, set before
\* the agent's tasks run (spec.md, data model): not while a task of the agent
\* is being retried.
SetRetryPolicy(a, policy) ==
  /\ life = << >>
  /\ eh.pc = "idle"
  /\ retry_policies' = IF a \in DOMAIN retry_policies
                       THEN [retry_policies EXCEPT ![a] = policy]
                       ELSE retry_policies @@ (a :> policy)
  /\ UNCHANGED <<error_handlers, notification_callbacks, eh, life>>
  /\ UNCHANGED <<busVars, agVars, monVars, parVars, mbVars>>

\* register_notification_callback(callback)
RegisterNotificationCallback(kind) ==
  /\ Len(notification_callbacks) < MaxNotify
  /\ notification_callbacks' = Append(notification_callbacks, kind)
  /\ UNCHANGED <<error_handlers, retry_policies, eh, life>>
  /\ UNCHANGED <<busVars, agVars, monVars, parVars, mbVars>>


(***************************************************************************)
(* The agent execution lifecycle,                                          *)
(* src/src/agents/aethero_agent_bootstrap.py, with the AgentBus as the     *)
(* agent's message_bus (as in src/tests/test_integration.py).              *)
(***************************************************************************)
\* task_data: with a task_id, or without one
TaskData == {[task_id |-> "task_1"], [action |-> "process"]}

\* task_data.get("task_id", str(datetime.now().timestamp()))
TaskId(task, ts) == IF "task_id" \in DOMAIN task THEN task.task_id ELSE ToString(ts)

\* _log_task_event(event_type, task_id, additional_data): the log unit emitted
LogUnit(a, event, task_id, data) ==
  [step |-> event, agent_id |-> a, task_id |-> task_id, data |-> data]

\* what execute_task does besides logging, in the order it does it
Step(what) == [step |-> what]

InitAgent ==
  /\ exec = [p \in Procs |-> [pc |-> "idle"]]
  /\ outcomes = {}
  /\ status = [a \in Agents |-> "initialized"]

\* self.status of agent a once a call of its execute_task has ended as `how`:
\* lines 82-109 have no assignment to it
StatusAfterFailure(st, a, how) ==
  IF how = "raised" THEN [st EXCEPT ![a] = "failed"] ELSE st

StatusAfter(st, a, how) == st

\* execute_task is over for coroutine p, as recorded in `e`
Over(p, e) ==
  /\ exec' = [exec EXCEPT ![p] = e]
  /\ status' = StatusAfter(status, e.agent_id, e.pc)

\* lines 84-89: the task id, the task_started log unit, and process_task is
\* entered, which yields
StartedLate(a, task_id, task) ==
  <<Step("process_task"), LogUnit(a, "task_started", task_id, [input |-> task])>>

Started(a, task_id, task) ==
  <<LogUnit(a, "task_started", task_id, [input |-> task]), Step("process_task")>>

\* lines 89-94: process_task has returned `result`; the task_completed log
\* unit, and publish is called
CompletedLate(a, task_id, result) ==
  <<Step("process_task returned"), Step("publish"),
    LogUnit(a, "task_completed", task_id, [output |-> result])>>

Completed(a, task_id, result) ==
  <<Step("process_task returned"),
    LogUnit(a, "task_completed", task_id, [output |-> result]),
    Step("publish")>>

\* what process_task raises
TaskErrors == {"ValueError"}

\* lines 102-109: the task_failed log unit of the except clause, then `raise`
FailedSilent(a, task_id, error, task, tags) == <<Step("raise")>>

Failed(a, task_id, error, task, tags) ==
  <<LogUnit(a, "task_failed", task_id,
            [error |-> error, task_data |-> task, asl_context |-> tags]),
    Step("raise")>>

\* line 109: a bare `raise` re-raises the exception being handled
Reraised(error) == error

\* line 100: return result
ReturnValueOther(result) == "x"

ReturnValue(result) == result

\* asl_tags=asl_context, line 97
PublishedTagsNone(tags) == NoTags

PublishedTags(tags) == tags

ExecuteTask(p, a, task, tags) ==
  /\ Settled
  /\ Idle(p)
  /\ \E ts \in Now :
       /\ clock' = ts
       /\ exec' = [exec EXCEPT ![p] =
                     [pc |-> "processing", agent_id |-> a, task_data |-> task,
                      asl_context |-> tags, task_id |-> TaskId(task, ts),
                      trace |-> Started(a, TaskId(task, ts), task),
                      result |-> "none", value |-> "none", failure |-> "none",
                      error |-> "none",
                      msg |-> << >>]]
  /\ UNCHANGED <<topics, queues, subscribers, message_history, timing, stack,
                 calls, got, subAt, histBase, cbAt, cbLog, cbStart, returned,
                 raised, errLog>>
  /\ UNCHANGED <<outcomes, status, ehVars, monVars, parVars, mbVars>>

\* process_task returns `result`: lines 89-100 up to the first yield of
\* publish, and lines 102-109 when publish raises
ProcessReturns(p, result) ==
  /\ Settled
  /\ exec[p].pc = "processing"
  /\ NCalls < MaxPublish
  /\ LET e  == exec[p]
         t  == OutputTopic(e.agent_id)
         e1 == [e EXCEPT !.result = result,
                         !.msg = <<t, Len(calls[t]) + 1>>,
                         !.trace = @ \o Completed(e.agent_id, e.task_id, result)]
     IN /\ PublishBody(p, << >>, t, result, PublishedTags(e.asl_context))
        /\ IF ~Serialisable(result)
           THEN Over(p, [e1 EXCEPT !.pc = "raised",
                           !.error = Reraised("publish failed"),
                           !.trace = @ \o Failed(e.agent_id, e.task_id, "publish failed",
                                                  e.task_data, e.asl_context)])
           ELSE IF Callbacks(subscribers, t) = << >>
           THEN Over(p, [e1 EXCEPT !.pc = "returned", !.value = ReturnValue(result),
                                   !.trace = Append(@, Step("return"))])
           ELSE /\ exec' = [exec EXCEPT ![p] = [e1 EXCEPT !.pc = "publishing"]]
                /\ UNCHANGED status
  /\ UNCHANGED <<topics, subscribers, timing, got, subAt, histBase, cbAt, cbLog>>
  /\ UNCHANGED <<outcomes, ehVars, monVars, parVars, mbVars>>

\* process_task raises: lines 102-109
ProcessRaises(p, err) ==
  /\ Settled
  /\ exec[p].pc = "processing"
  /\ LET e == exec[p]
     IN Over(p, [e EXCEPT !.pc = "raised", !.failure = err,
                          !.error = Reraised(err),
                          !.trace = Append(@, Step("process_task raised")) \o
                                    Failed(e.agent_id, e.task_id, err,
                                           e.task_data, e.asl_context)])
  /\ UNCHANGED busVars
  /\ UNCHANGED <<outcomes, ehVars, monVars, parVars, mbVars>>

\* `await self.message_bus.publish(...)`, line 94: execute_task goes on when
\* the publish call with frame f has run its callback loop to the end
AwaitedNever(f) == TRUE

Awaited(f) == f.done

\* the publish awaited at line 94 returns after its callback loop: line 100
ExecuteReturn(p) ==
  /\ Settled
  /\ exec[p].pc = "publishing"
  /\ Len(stack[p]) = 1
  /\ LET f == Top(stack[p])
     IN /\ Awaited(f)
        /\ returned' = returned \cup {f.msg.id}
        /\ stack' = [stack EXCEPT ![p] = << >>]
        /\ Over(p, [exec[p] EXCEPT !.pc = "returned",
                                    !.value = ReturnValue(exec[p].result),
                                    !.trace = Append(@, Step("return"))])
  /\ UNCHANGED <<topics, queues, subscribers, message_history, clock, timing,
                 calls, got, subAt, histBase, cbAt, cbLog, cbStart, raised, errLog>>
  /\ UNCHANGED <<outcomes, ehVars, monVars, parVars, mbVars>>

\* the caller of execute_task has the result, or the failure
Resume(p) ==
  /\ exec[p].pc \in {"returned", "raised"}
  /\ exec' = [exec EXCEPT ![p] = [pc |-> "idle"]]
  /\ UNCHANGED busVars
  /\ UNCHANGED <<outcomes, status, ehVars, monVars, parVars, mbVars>>

\* results = await asyncio.gather(*tasks, return_exceptions=True): the task that
\* wraps the execute_task call of coroutine p is done, and gather keeps what
\* it returned or raised; `overlapped` records that another call was still
\* running then
Gather(p) ==
  /\ exec[p].pc \in {"returned", "raised"}
  /\ LET e == exec[p]
     IN outcomes' = outcomes \cup
          {[agent_id |-> e.agent_id, outcome |-> e.pc, value |-> e.value,
            error |-> e.error, msg |-> e.msg,
            overlapped |-> \E q \in Procs \ {p} : exec[q].pc # "idle"]}
  /\ exec' = [exec EXCEPT ![p] = [pc |-> "idle"]]
  /\ UNCHANGED busVars
  /\ UNCHANGED <<status, ehVars, monVars, parVars, mbVars>>

(***************************************************************************)
(* The monitor, src/src/monitoring/monitor.py.                             *)
(***************************************************************************)
MaxSamples        == 2   \* samples collect_metrics appends in one run
MaxAlertCallbacks == 2   \* add_alert_callback() calls in one run

\* alert_thresholds of __init__
AlertThresholds == [cpu_percent |-> 80, memory_percent |-> 80, disk_percent |-> 90]

\* what psutil reads: cpu percent, memory percent, disk percent
Readings == {<<50, 50, 50>>, <<80, 50, 50>>, <<85, 50, 50>>, <<50, 85, 50>>,
             <<50, 50, 95>>, <<85, 85, 50>>, <<85, 85, 95>>}

\* behaviours of an alert callback: returns, or raises an Exception
AlertKinds == {"ok", "fail"}

\* SystemMetrics(cpu_percent, memory_percent, disk_usage); __post_init__ fills
\* the timestamp, here the number of the sample
SystemMetrics(r, ts) ==
  [cpu_percent |-> r[1], memory_percent |-> r[2],
   disk_usage |-> [percent |-> r[3]], timestamp |-> ts]

\* metrics.x > self.alert_thresholds[x]
ExceedsOrEqual(value, limit) == value >= limit

Exceeds(value, limit) == value > limit

\* lines 134-143: the alerts list of _check_alerts
Alerts(m) ==
  (IF Exceeds(m.cpu_percent, AlertThresholds.cpu_percent)
   THEN << <<"High CPU usage", m.cpu_percent>> >> ELSE << >>) \o
  (IF Exceeds(m.memory_percent, AlertThresholds.memory_percent)
   THEN << <<"High memory usage", m.memory_percent>> >> ELSE << >>) \o
  (IF Exceeds(m.disk_usage.percent, AlertThresholds.disk_percent)
   THEN << <<"High disk usage", m.disk_usage.percent>> >> ELSE << >>)

\* lines 146-150
AlertData(m) == [timestamp |-> m.timestamp, alerts |-> Alerts(m), metrics |-> m]

\* lines 153-156: `except Exception` around the awaited callback
AlertCaughtNever(kind) == FALSE

AlertCaught(kind) == kind = "fail"

\* `while self.running`
KeepsRunningAlways(flag) == TRUE

KeepsRunning(flag) == flag

\* lines 72-74: `except Exception` of the loop, then the back-off sleep
AfterFailureRaised == "raised"

AfterFailure == "backoff"

\* a loop iteration that has done nothing yet
Iteration(pc) ==
  [pc |-> pc, i |-> 1, sample |-> << >>, invoked |-> << >>, logged |-> << >>]

InitMon ==
  /\ agent_metrics = << >>
  /\ system_metrics = << >>
  /\ alert_callbacks = << >>
  /\ running = TRUE
  /\ stoppedAt = << >>
  /\ mon = Iteration("idle")
  /\ updated = << >>

\* start_monitoring(interval) is called: line 67
StartMonitoring ==
  /\ mon.pc = "idle"
  /\ mon' = Iteration("loop")
  /\ UNCHANGED <<agent_metrics, updated, system_metrics, alert_callbacks, running, stoppedAt>>
  /\ UNCHANGED <<busVars, ehVars, agVars, parVars, mbVars>>

\* `while self.running`: line 68; collect_metrics is entered, or the loop ends
\* (mon keeps what the iteration before did until this one has an outcome)
LoopTest ==
  /\ mon.pc = "loop"
  /\ mon' = [mon EXCEPT !.pc = IF KeepsRunning(running) THEN "collecting"
                                                        ELSE "returned"]
  /\ UNCHANGED <<agent_metrics, updated, system_metrics, alert_callbacks, running, stoppedAt>>
  /\ UNCHANGED <<busVars, ehVars, agVars, parVars, mbVars>>

\* the alert loop of _check_alerts from callback i on: the next callback is
\* awaited, or collect_metrics returns and the loop sleeps for the interval
AlertLoop(m, i) ==
  IF Alerts(m.sample[1]) # << >> /\ i <= Len(alert_callbacks)
  THEN [m EXCEPT !.pc = "alerting", !.i = i]
  ELSE [m EXCEPT !.pc = "sleeping", !.i = i]

\* self.system_metrics.append(metrics): line 94
AppendSampleFront(history, m) == <<m>> \o history

AppendSample(history, m) == Append(history, m)

\* SystemMetrics.to_dict()
SystemMetricsToDict(m) ==
  [cpu_percent |-> m.cpu_percent, memory_percent |-> m.memory_percent,
   disk_usage |-> m.disk_usage, timestamp |-> m.timestamp]

\* get_system_metrics(limit): `if limit:` is false for None and for 0
GetSystemMetrics(limit) ==
  LET metrics == IF limit # None /\ limit[1] # 0
                 THEN LastSlice(system_metrics, limit[1])
                 ELSE system_metrics
  IN [i \in 1..Len(metrics) |-> SystemMetricsToDict(metrics[i])]

\* collect_metrics reads the host and appends the sample: lines 79-98
Collect(r) ==
  /\ mon.pc = "collecting"
  /\ Len(system_metrics) < MaxSamples
  /\ LET m == SystemMetrics(r, Len(system_metrics) + 1)
     IN /\ system_metrics' = AppendSample(system_metrics, m)
        /\ mon' = AlertLoop([Iteration("collecting") EXCEPT !.sample = <<m>>], 1)
  /\ UNCHANGED <<agent_metrics, updated, alert_callbacks, running, stoppedAt>>
  /\ UNCHANGED <<busVars, ehVars, agVars, parVars, mbVars>>

\* a psutil read raises: lines 72-74
CollectFails ==
  /\ mon.pc = "collecting"
  /\ mon' = [Iteration(AfterFailure) EXCEPT
               !.logged = <<"Error in monitoring loop">>]
  /\ UNCHANGED <<agent_metrics, updated, system_metrics, alert_callbacks, running, stoppedAt>>
  /\ UNCHANGED <<busVars, ehVars, agVars, parVars, mbVars>>

\* the awaited alert callback returns or raises: lines 152-156
AlertCallback ==
  /\ mon.pc = "alerting"
  /\ LET kind == alert_callbacks[mon.i]
         m    == [mon EXCEPT !.invoked =
                     Append(@, [callback |-> mon.i, data |-> AlertData(mon.sample[1])])]
     IN mon' = IF kind = "ok"
               THEN AlertLoop(m, mon.i + 1)
               ELSE IF AlertCaught(kind)
               THEN AlertLoop([m EXCEPT !.logged = Append(@, "Alert callback failed")],
                              mon.i + 1)
               ELSE [m EXCEPT !.pc = AfterFailure,
                              !.logged = Append(@, "Error in monitoring loop")]
  /\ UNCHANGED <<agent_metrics, updated, system_metrics, alert_callbacks, running, stoppedAt>>
  /\ UNCHANGED <<busVars, ehVars, agVars, parVars, mbVars>>

\* where start_monitoring goes on after a sleep: the sleeps are the last
\* statements of the loop body, so at the test of line 68
AfterSleepCollects == "collecting"

AfterSleep == "loop"

\* asyncio.sleep(interval) returns: line 71
WakeInterval ==
  /\ mon.pc = "sleeping"
  /\ mon' = [mon EXCEPT !.pc = AfterSleep]
  /\ UNCHANGED <<agent_metrics, updated, system_metrics, alert_callbacks, running, stoppedAt>>
  /\ UNCHANGED <<busVars, ehVars, agVars, parVars, mbVars>>

\* asyncio.sleep(5) returns: line 74
WakeBackoff ==
  /\ mon.pc = "backoff"
  /\ mon' = [mon EXCEPT !.pc = AfterSleep]
  /\ UNCHANGED <<agent_metrics, updated, system_metrics, alert_callbacks, running, stoppedAt>>
  /\ UNCHANGED <<busVars, ehVars, agVars, parVars, mbVars>>

\* The owner clears the flag: monitor.running = False.  The owner runs on the
\* event loop of the monitoring task, so it runs while start_monitoring is
\* suspended or has not begun, and not between the test of line 68 and the
\* append of line 94, where the task does not yield.
Stop ==
  /\ running
  /\ mon.pc # "collecting"
  /\ running' = FALSE
  /\ stoppedAt' = <<[pc |-> mon.pc, samples |-> Len(system_metrics)]>>
  /\ UNCHANGED <<agent_metrics, updated, system_metrics, alert_callbacks, mon>>
  /\ UNCHANGED <<busVars, ehVars, agVars, parVars, mbVars>>

\* add_alert_callback(callback)
AddAlertCallback(kind) ==
  /\ Len(alert_callbacks) < MaxAlertCallbacks
  /\ alert_callbacks' = Append(alert_callbacks, kind)
  /\ UNCHANGED <<agent_metrics, updated, system_metrics, running, stoppedAt, mon>>
  /\ UNCHANGED <<busVars, ehVars, agVars, parVars, mbVars>>

\* the metrics dicts update_agent_metrics is called with
Payloads ==
  {[status |-> "active", tasks_processed |-> 2, errors_count |-> 1,
    avg_processing_time |-> 1, memory_usage |-> 45, cpu_usage |-> 12],
   [status |-> "initialized", tasks_processed |-> 3],
   [errors_count |-> 2, cpu_usage |-> 7],
   [status |-> "bogus"]}

\* lines 102-111: the AgentMetrics built from the payload
AgentMetrics(a, metrics, now) ==
  [agent_id |-> a,
   status |-> DictGet(metrics, "status", "unknown"),
   tasks_processed |-> DictGet(metrics, "tasks_processed", 0),
   errors_count |-> DictGet(metrics, "errors_count", 0),
   avg_processing_time |-> DictGet(metrics, "avg_processing_time", 0),
   last_active |-> DictGet(metrics, "last_active", now),
   memory_usage |-> DictGet(metrics, "memory_usage", 0),
   cpu_usage |-> DictGet(metrics, "cpu_usage", 0)]

\* self.agent_metrics[agent_id] = ...
OverwriteKeepFirst(dict, key, value) == dict @@ (key :> value)

Overwrite(dict, key, value) == (key :> value) @@ dict

\* the last two of a sequence
LastTwo(seq) == IF Len(seq) <= 2 THEN seq ELSE SubSeq(seq, Len(seq) - 1, Len(seq))

\* update_agent_metrics(agent_id, metrics)
UpdateAgentMetrics(a, metrics) ==
  /\ \E ts \in Now :
       /\ clock' = ts
       /\ agent_metrics' = Overwrite(agent_metrics, a, AgentMetrics(a, metrics, ts))
       /\ updated' =
            (a :> [payloads |-> LastTwo(Append(IF a \in DOMAIN updated
                                               THEN updated[a].payloads ELSE << >>,
                                               metrics)),
                   at |-> ts]) @@ updated
  /\ UNCHANGED <<system_metrics, alert_callbacks, running, stoppedAt, mon>>
  /\ UNCHANGED <<topics, queues, subscribers, message_history, timing, stack,
                 calls, got, subAt, histBase, cbAt, cbLog, cbStart, returned,
                 raised, errLog>>
  /\ UNCHANGED <<ehVars, agVars, parVars, mbVars>>

\* AgentMetrics.to_dict()
AgentMetricsToDict(m) == m

\* get_agent_metrics(agent_id) for an agent id given: line 125; the {} that
\* dict.get returns for an unknown agent has no to_dict
GetAgentMetrics(a) ==
  IF a \in DOMAIN agent_metrics
  THEN AgentMetricsToDict(agent_metrics[a])
  ELSE [raised |-> "AttributeError"]

(***************************************************************************)
(* The tag parser, src/src/asl_parser.py.  A text is a sequence of         *)
(* characters, each a string of length one.                                *)
(***************************************************************************)
MaxParts == 2            \* pieces an input text is written from

Whitespace == {" ", "\n"}
DigitChars == {"0", "1", "2", "3", "4", "5", "6", "7", "8", "9"}

\* all of a sequence but its last element
Front(seq) == SubSeq(seq, 1, Len(seq) - 1)

\* str.strip()
Strip(text) ==
  LET kept == {i \in 1..Len(text) : text[i] \notin Whitespace}
  IN IF kept = {} THEN << >>
     ELSE SubSeq(text, CHOOSE i \in kept : \A j \in kept : i <= j,
                       CHOOSE i \in kept : \A j \in kept : i >= j)

\* the first place of character ch in text at or after `from`, 0 if none
Find(text, ch, from) ==
  LET at == {i \in from..Len(text) : text[i] = ch}
  IN IF at = {} THEN 0 ELSE CHOOSE i \in at : \A j \in at : i <= j

\* str.split(sep)
RECURSIVE Split(_, _)
Split(text, sep) ==
  LET i == Find(text, sep, 1)
  IN IF i = 0 THEN <<text>>
     ELSE <<SubSeq(text, 1, i - 1)>> \o Split(SubSeq(text, i + 1, Len(text)), sep)

\* self._tag_pattern.finditer(content) for the pattern {([^}]+)}, scanning
\* from place `from`: a match runs from a "{" to the first "}" after it with
\* at least one character between them; offsets count from 0, end is exclusive
RECURSIVE FindIter(_, _)
FindIter(text, from) ==
  LET open  == Find(text, "{", from)
      close == IF open = 0 THEN 0 ELSE Find(text, "}", open + 1)
  IN IF open = 0 \/ close = 0 THEN << >>
     ELSE IF close = open + 1 THEN FindIter(text, open + 1)
     ELSE <<[start |-> open - 1, end |-> close,
             group |-> SubSeq(text, open + 1, close - 1)]>>
          \o FindIter(text, close + 1)

\* the values of Python a tag can have
PyInt(n)      == [type |-> "int", v |-> n]
PyFloat(n, s) == [type |-> "float", v |-> <<n, s>>]      \* the number n / 10^s
PyBool(b)     == [type |-> "bool", v |-> b]
PyStr(text)   == [type |-> "str", v |-> text]
ValueError    == [type |-> "ValueError", v |-> 0]        \* raised, not a value

\* value.replace(ch, '')
Replace(text, ch) == SelectSeq(text, LAMBDA x : x # ch)

\* str.isdigit()
IsDigit(text) == text # << >> /\ \A i \in 1..Len(text) : text[i] \in DigitChars

LowerChar(ch) ==
  CASE ch = "T" -> "t" [] ch = "R" -> "r" [] ch = "U" -> "u" [] ch = "E" -> "e"
    [] ch = "F" -> "f" [] ch = "A" -> "a" [] ch = "L" -> "l" [] ch = "S" -> "s"
    [] OTHER -> ch

\* str.lower()
Lower(text) == [i \in 1..Len(text) |-> LowerChar(text[i])]

DigitValue(ch) == CHOOSE n \in 0..9 : ToString(n) = ch

\* int(value) for a text of decimal digits
RECURSIVE IntOf(_)
IntOf(ds) ==
  IF ds = << >> THEN 0 ELSE 10 * IntOf(Front(ds)) + DigitValue(ds[Len(ds)])

\* the float n / 10^s, written without trailing zeros
RECURSIVE Reduced(_, _)
Reduced(n, s) ==
  IF s > 0 /\ n % 10 = 0 THEN Reduced(n \div 10, s - 1) ELSE PyFloat(n, s)

\* float(value) for a text of digits and points: a ValueError unless there is
\* exactly one point
FloatOf(value) ==
  LET points == {i \in 1..Len(value) : value[i] = "."}
  IN IF Cardinality(points) # 1 THEN ValueError
     ELSE Reduced(IntOf(Replace(value, ".")),
                  Len(value) - (CHOOSE i \in points : TRUE))

StartsWith(text, ch) == text # << >> /\ text[1] = ch
EndsWith(text, ch)   == text # << >> /\ text[Len(text)] = ch

\* value[1:-1]
Unquoted(text) == SubSeq(text, 2, Len(text) - 1)

\* lines 72-81: the try block of the coercion
TryCoerce(value) ==
  IF IsDigit(Replace(value, "."))
  THEN (IF "." \in Range(value) THEN FloatOf(value) ELSE PyInt(IntOf(value)))
  ELSE IF Lower(value) = <<"t", "r", "u", "e">> THEN PyBool(TRUE)
  ELSE IF Lower(value) = <<"f", "a", "l", "s", "e">> THEN PyBool(FALSE)
  ELSE IF StartsWith(value, "'") /\ EndsWith(value, "'") THEN PyStr(Unquoted(value))
  ELSE IF StartsWith(value, "\"") /\ EndsWith(value, "\"") THEN PyStr(Unquoted(value))
  ELSE PyStr(value)

\* lines 70-87: the try block, and the `except ValueError` clause
Coerce(value) ==
  IF TryCoerce(value).type # "ValueError" THEN TryCoerce(value)
  ELSE IF StartsWith(value, "'") /\ EndsWith(value, "'") THEN PyStr(Unquoted(value))
  ELSE IF StartsWith(value, "\"") /\ EndsWith(value, "\"") THEN PyStr(Unquoted(value))
  ELSE PyStr(value)

\* tag_dict[key] = value: a dict keeps the place of a key it already has
DictSet(dict, key, value) ==
  IF \E i \in 1..Len(dict) : dict[i].key = key
  THEN [i \in 1..Len(dict) |->
          IF dict[i].key = key THEN [dict[i] EXCEPT !.value = value] ELSE dict[i]]
  ELSE Append(dict, [key |-> key, value |-> value])

\* lines 64-89: tag_dict after the loop over `pairs`
RECURSIVE TagDict(_)
TagDict(pairs) ==
  IF pairs = << >> THEN << >>
  ELSE LET pair == Strip(pairs[Len(pairs)])
           i    == Find(pair, ":", 1)
       IN IF i = 0 THEN TagDict(Front(pairs))
          ELSE DictSet(TagDict(Front(pairs)),
                       Strip(SubSeq(pair, 1, i - 1)),
                       Coerce(Strip(SubSeq(pair, i + 1, Len(pair)))))

\* content[:start].count('\n') + 1
LineOfFromZero(text, m) ==
  Len(SelectSeq(SubSeq(text, 1, m.start), LAMBDA ch : ch = "\n"))

LineOf(text, m) ==
  Len(SelectSeq(SubSeq(text, 1, m.start), LAMBDA ch : ch = "\n")) + 1

\* lines 92-96
Position(text, m) == [start |-> m.start, end |-> m.end, line |-> LineOf(text, m)]

\* ASLTag(tag_name, value, position).to_dict(), without the creation time
ASLTag(tag_name, value, position) ==
  [tag_name |-> tag_name, value |-> value, position |-> position]

\* lines 61-105: the tags made from match m
BlockTags(text, m) ==
  LET tag_dict == TagDict(Split(Strip(m.group), ","))
  IN [i \in 1..Len(tag_dict) |->
        ASLTag(tag_dict[i].key, tag_dict[i].value, Position(text, m))]

\* the loop over the matches from match n on: each tag with its match
RECURSIVE Collected(_, _, _)
Collected(text, matches, n) ==
  IF n > Len(matches) THEN << >>
  ELSE LET made == BlockTags(text, matches[n])
       IN [i \in 1..Len(made) |-> [tag |-> made[i], match |-> n]]
          \o Collected(text, matches, n + 1)

\* the value texts written into the blocks
ValueTexts ==
  { <<"1">>, <<"4", "2">>, <<"0", ".", "5">>, <<"5", ".">>,
    <<"1", ".", "2", ".", "3">>, <<".">>, <<"-", "5">>,
    <<"t", "r", "u", "e">>, <<"T", "r", "u", "e">>, <<"F", "A", "L", "S", "E">>,
    <<"'", "q", "'">>, <<"\"", "q", "\"">>, <<"'", "q", "\"">>, <<"'", "1", "'">>,
    <<"'">>, <<"q">> }

Pair(key, value) == [key |-> key, value |-> value]

\* "k: v, k: v"
RECURSIVE Joined(_)
Joined(pairs) ==
  IF pairs = << >> THEN << >>
  ELSE (IF Len(pairs) > 1 THEN Joined(Front(pairs)) \o <<",", " ">> ELSE << >>)
       \o pairs[Len(pairs)].key \o <<":", " ">> \o pairs[Len(pairs)].value

\* a block "{k: v, k: v}" of key/value pairs
Block(pairs) ==
  [kind |-> "block", pairs |-> pairs, text |-> <<"{">> \o Joined(pairs) \o <<"}">>]

\* a bracketed block without a key/value pair, and text outside blocks
Malformed(text) == [kind |-> "malformed", pairs |-> << >>, text |-> text]
Plain(text)     == [kind |-> "plain", pairs |-> << >>, text |-> text]

\* the pairs of the blocks with two pairs
TwoPairs == {Pair(<<"a">>, <<"1">>), Pair(<<"b">>, <<"'", "q", "'">>)}

Pieces ==
  {Block(<<Pair(<<"a">>, v)>>) : v \in ValueTexts}
  \cup {Block(<<p, q>>) : p, q \in TwoPairs}
  \cup {Malformed(<<"{", "q", "}">>), Malformed(<<"{", "}">>)}
  \cup {Plain(<<"x">>), Plain(<<"\n">>)}

\* the text written from the pieces ps
RECURSIVE Flatten(_)
Flatten(ps) == IF ps = << >> THEN << >> ELSE Flatten(Front(ps)) \o ps[Len(ps)].text

\* ASLParser(), and no text yet
InitPar ==
  /\ content = << >>
  /\ parser_tags = << >>
  /\ parts = << >>
  /\ origin = << >>
  /\ parsed = FALSE

\* ASLParser(), and a text to parse
InitParWith ==
  /\ parts \in UNION {[1..n -> Pieces] : n \in 0..MaxParts}
  /\ content = Flatten(parts)
  /\ parser_tags = << >>
  /\ origin = << >>
  /\ parsed = FALSE

\* parser.parse(content)
Parse ==
  /\ ~parsed
  /\ LET found == Collected(content, FindIter(content, 1), 1)
     IN /\ parser_tags' = [i \in 1..Len(found) |-> found[i].tag]
        /\ origin' = [i \in 1..Len(found) |-> found[i].match]
  /\ parsed' = TRUE
  /\ UNCHANGED <<content, parts>>
  /\ UNCHANGED <<busVars, ehVars, agVars, monVars, mbVars>>

(***************************************************************************)
(* The bus an agent makes for itself when it is given none: MessageBus of  *)
(* src/src/agents/aethero_agent_bootstrap.py.                              *)
(***************************************************************************)
\* MessageBus(): self.topics = {}
InitDefault ==
  /\ mb_topics = << >>
  /\ mb_queues = << >>

\* the enriched message of publish
Enriched(c, tags, ts) == [content |-> c, asl_tags |-> tags, timestamp |-> ts]

\* messages in the lists of the bus
NDefault ==
  LET n[S \in SUBSET AgentTopics] ==
        IF S = {} THEN 0
        ELSE LET t == CHOOSE x \in S : TRUE
             IN Len(mb_topics[t]) + n[S \ {t}]
  IN n[DOMAIN mb_topics]

\* what publish does to the queues subscribe has returned: the code keeps no
\* reference to them, so nothing
FeedSubscribed(qs, t, msg) ==
  [q \in DOMAIN qs |->
     IF qs[q].topic = t THEN [qs[q] EXCEPT !.items = Append(@, msg)] ELSE qs[q]]

Feed(qs, t, msg) == qs

\* MessageBus.publish(topic, message, asl_tags), lines 31-40: it has no await
\* and no serialisation, so it neither yields nor raises
DefaultPublish(t, c, tags) ==
  /\ NDefault < MaxPublish
  /\ \E ts \in Now :
       LET msg == Enriched(c, tags, ts)
       IN /\ clock' = ts
          /\ mb_topics' = IF t \in DOMAIN mb_topics
                          THEN [mb_topics EXCEPT ![t] = Append(@, msg)]
                          ELSE mb_topics @@ (t :> <<msg>>)
          /\ mb_queues' = Feed(mb_queues, t, msg)
  /\ UNCHANGED <<topics, queues, subscribers, message_history, timing, stack,
                 calls, got, subAt, histBase, cbAt, cbLog, cbStart, returned,
                 raised, errLog>>
  /\ UNCHANGED <<ehVars, agVars, monVars, parVars>>

\* MessageBus.subscribe(topic), lines 42-46: the topic gets its list, and a
\* new asyncio.Queue() is returned
DefaultSubscribe(t) ==
  /\ Len(mb_queues) < MaxSubs
  /\ mb_topics' = IF t \in DOMAIN mb_topics THEN mb_topics
                  ELSE mb_topics @@ (t :> << >>)
  /\ mb_queues' = Append(mb_queues,
                         [topic |-> t,
                          at |-> IF t \in DOMAIN mb_topics
                                 THEN Len(mb_topics[t]) ELSE 0,
                          items |-> << >>])
  /\ UNCHANGED <<busVars, ehVars, agVars, monVars, parVars>>

\* ------------------------------------------------------------- specifications
Init == InitBus /\ InitErr /\ InitAgent /\ InitMon /\ InitPar /\ InitDefault

\* agents on a bus that queues and callbacks subscribed to before the tasks run
InitWired ==
  /\ \E w \in Wirings : InitBusWith(w[1], w[2])
  /\ InitErr
  /\ InitAgent
  /\ InitMon
  /\ InitPar
  /\ InitDefault

NextBus ==
  \/ \E p \in Procs, t \in AgentTopics, c \in Contents : Publish(p, t, c)
  \/ \E p \in Procs : Notify(p)
  \/ \E p \in Procs : PublishReturn(p)
  \/ \E t \in AgentTopics : Subscribe(t)
  \/ \E t \in AgentTopics, k \in CallbackKinds : AddSubscriber(t, k)
  \/ \E q \in 1..MaxSubs : Get(q)



NextErr ==
  \/ \E et \in FailingTypes, a \in FailingAgents, task \in Tasks,
        k \in {None} \cup {Some(n) : n \in 0..MaxRetryCount} :
          HandleError(et, a, task, k)
  \/ HandleErrorAgain
  \/ TaskOver
  \/ HandlerDone
  \/ Wake
  \/ Notification
  \/ \E et \in ErrorTypes, kind \in HandlerKinds : RegisterErrorHandler(et, kind)
  \/ \E a \in Agents, policy \in Policies : SetRetryPolicy(a, policy)
  \/ \E kind \in NotifyKinds : RegisterNotificationCallback(kind)


NextAgent ==
  \/ \E p \in Procs, a \in Agents, task \in TaskData, tags \in Tags :
        ExecuteTask(p, a, task, tags)
  \/ \E p \in Procs, result \in Contents : ProcessReturns(p, result)
  \/ \E p \in Procs, err \in TaskErrors : ProcessRaises(p, err)
  \/ \E p \in Procs : ExecuteReturn(p)
  \/ \E p \in Procs : Resume(p)
  \/ \E p \in Procs : Notify(p)
  \/ \E p \in Procs : PublishReturn(p)

\* the wirings of a run of concurrent tasks: at most one callback on an
\* output topic
ConcWirings == {w \in Wirings : w[1] = << >> /\ Len(w[2]) <= 1}

InitConc ==
  /\ \E w \in ConcWirings : InitBusWith(w[1], w[2])
  /\ InitErr
  /\ InitAgent
  /\ InitMon
  /\ InitPar
  /\ InitDefault

\* the tasks of the concurrent runs: each has its task_id
ConcTasks == {task \in TaskData : "task_id" \in DOMAIN task}

\* execute_task calls run as tasks of one asyncio.gather
NextConc ==
  \/ \E p \in Procs, a \in Agents, task \in ConcTasks, tags \in Tags :
        ExecuteTask(p, a, task, tags)
  \/ \E p \in Procs, result \in Contents : ProcessReturns(p, result)
  \/ \E p \in Procs, err \in TaskErrors : ProcessRaises(p, err)
  \/ \E p \in Procs : ExecuteReturn(p)
  \/ \E p \in Procs : Gather(p)
  \/ \E p \in Procs : Notify(p)
  \/ \E p \in Procs : PublishReturn(p)

\* the sampling loop of the monitor and its owner
NextLoop ==
  \/ StartMonitoring
  \/ LoopTest
  \/ \E r \in Readings : Collect(r)
  \/ CollectFails
  \/ AlertCallback
  \/ WakeInterval
  \/ WakeBackoff
  \/ Stop
  \/ \E kind \in AlertKinds : AddAlertCallback(kind)

\* the bus with callers that read and clear the history
NextHist ==
  \/ \E p \in Procs, t \in HistTopics, c \in Contents : Publish(p, t, c)
  \/ \E p \in Procs : Notify(p)
  \/ \E p \in Procs : PublishReturn(p)
  \/ \E t \in HistTopics : Subscribe(t)
  \/ \E t \in HistTopics : AddSubscriber(t, "ok")
  \/ \E q \in 1..MaxSubs : Get(q)
  \/ \E t \in HistTopics \cup {NoTopic} : ClearHistory(t)

\* the bus with consumers that modify the messages they take
NextShare ==
  \/ \E p \in Procs, t \in AgentTopics, c \in Contents : Publish(p, t, c)
  \/ \E p \in Procs : Notify(p)
  \/ \E p \in Procs : PublishReturn(p)
  \/ \E t \in AgentTopics : Subscribe(t)
  \/ \E t \in AgentTopics, k \in CallbackKinds : AddSubscriber(t, k)
  \/ \E q \in 1..MaxSubs : Get(q)
  \/ \E q \in 1..MaxSubs, c \in Edits : Modify(q, c)

\* the bus and its history, with the clock running
InitClock ==
  InitBusRunning /\ InitErr /\ InitAgent /\ InitMon /\ InitPar /\ InitDefault

\* a parser and the text it is given
InitParse ==
  InitBus /\ InitErr /\ InitAgent /\ InitMon /\ InitParWith /\ InitDefault

NextParse == Parse

\* agents that were given no bus publish their results (execute_task, line
\* 94) on the bus they made, and consumers subscribe to it
NextDefault ==
  \/ \E a \in Agents, result \in Contents, tags \in Tags :
        DefaultPublish(OutputTopic(a), result, tags)
  \/ \E t \in AgentTopics : DefaultSubscribe(t)

\* the callers of update_agent_metrics
NextMetrics ==
  \E a \in Agents, metrics \in Payloads : UpdateAgentMetrics(a, metrics)

\* the bus alone
Spec == Init /\ [][NextBus]_vars

\* the error handler alone
SpecErr == Init /\ [][NextErr]_vars

\* agents that publish their results on the bus
SpecAgent == InitWired /\ [][NextAgent]_vars

\* agents whose tasks run concurrently
SpecConc == InitConc /\ [][NextConc]_vars

\* the monitor's loop alone
SpecLoop == Init /\ [][NextLoop]_vars

\* the bus and its history
SpecHist == Init /\ [][NextHist]_vars

\* the bus and consumers that modify what they take
SpecShare == Init /\ [][NextShare]_vars

\* the bus and its history while time passes
SpecClock == InitClock /\ [][NextHist]_vars

\* the tag parser alone
SpecParse == InitParse /\ [][NextParse]_vars

\* the default bus alone
SpecDefault == Init /\ [][NextDefault]_vars

\* the agent metrics of the monitor alone
SpecMetrics == Init /\ [][NextMetrics]_vars

\* a step of the start_monitoring coroutine
LoopStep ==
  \/ LoopTest
  \/ \E r \in Readings : Collect(r)
  \/ CollectFails
  \/ AlertCallback
  \/ WakeInterval
  \/ WakeBackoff

\* the event loop runs the coroutine whenever it can go on: the psutil reads
\* return or raise, the sleeps end, and the alert callbacks return or raise
SpecLoopLive == SpecLoop /\ WF_vars(LoopStep)

\* ------------------------------------------------------------- bus claims
\* everything a queue was ever given: what was taken from it, then its content
Stream(q) == got[q] \o queues[q]

TopicOf(q) == CHOOSE t \in DOMAIN topics : q \in Range(topics[t])

Brief(ms) == [i \in 1..Len(ms) |-> [id |-> ms[i].id, content |-> ms[i].content]]

Ids(ms) == {ms[i].id : i \in 1..Len(ms)}

Pos(ms, id) == CHOOSE i \in 1..Len(ms) : ms[i].id = id

IsAccepted(call) == Serialisable(call.content)

\* the calls publish(t, ...) made after the first n, in call order, that got
\* past the log line
AcceptedAfter(t, n) == SelectSeq(SubSeq(calls[t], n + 1, Len(calls[t])), IsAccepted)

InFlight(id) == \E p \in Procs : \E k \in 1..Len(stack[p]) : stack[p][k].msg.id = id

\* C1: a queue yields the messages published to its topic since it was
\* subscribed in the order of the publish calls, and get_history(topic)
\* returns the topic's messages in the order of the publish calls.
C1_PublishOrder ==
  /\ \A q \in DOMAIN queues :
       Brief(Stream(q)) = AcceptedAfter(TopicOf(q), subAt[q])
  /\ \A t \in Topics :
       Brief(GetHistory(t, None)) = AcceptedAfter(t, histBase[t])

\* two publish calls on one topic went out to a queue subscribed before both
C1_Witness ==
  \E q \in DOMAIN queues :
    /\ Len(got[q]) = 2
    /\ got[q][1].id # got[q][2].id
    /\ Len(GetHistory(TopicOf(q), None)) = 2
    /\ \A p \in Procs : stack[p] = << >>

\* C2: whatever the interleaving of overlapping publish calls, two messages
\* are in the same relative order in every queue of the topic that holds both
\* and in the topic's history.
C2_SameOrderEverywhere ==
  \A q \in DOMAIN queues :
    LET sq == Stream(q)
        h  == GetHistory(TopicOf(q), None)
    IN \A i, j \in 1..Len(sq) :
         i < j =>
           /\ ({sq[i].id, sq[j].id} \subseteq Ids(h)
                 => Pos(h, sq[i].id) < Pos(h, sq[j].id))
           /\ \A r \in DOMAIN queues :
                (TopicOf(r) = TopicOf(q) /\ {sq[i].id, sq[j].id} \subseteq Ids(Stream(r)))
                  => Pos(Stream(r), sq[i].id) < Pos(Stream(r), sq[j].id)

\* two publish calls on one topic are both suspended in the callback loop
\* while a queue of the topic holds both messages
C2_Witness ==
  \E q \in DOMAIN queues :
    /\ Len(Stream(q)) = 2
    /\ \A p \in Procs :
         /\ stack[p] # << >>
         /\ stack[p][1].topic = TopicOf(q)
         /\ stack[p][1].msg.id \in Ids(Stream(q))
    /\ stack[1][1].msg.id # stack[2][1].msg.id

\* how often a queue was given the message `id`
Copies(q, id) == Cardinality({i \in 1..Len(Stream(q)) : Stream(q)[i].id = id})

\* C3: every queue of a topic is given each message published to the topic
\* after its own subscribe call exactly once, none published before it and
\* none of another topic; what one queue's consumer takes stays in the others.
C3_Broadcast ==
  \A q \in DOMAIN queues :
    /\ \A k \in 1..Len(calls[TopicOf(q)]) :
         LET call == calls[TopicOf(q)][k]
         IN Copies(q, call.id) = IF k > subAt[q] /\ IsAccepted(call) THEN 1 ELSE 0
    /\ \A i \in 1..Len(Stream(q)) : Stream(q)[i].topic = TopicOf(q)

\* two queues of one topic were given the same message and one consumer has
\* taken it
C3_Witness ==
  \E q, r \in DOMAIN queues :
    /\ q # r
    /\ TopicOf(q) = TopicOf(r)
    /\ got[q] # << >>
    /\ queues[r] # << >>
    /\ got[q][1].id = queues[r][1].id

\* C4: a message a failing callback was invoked with is in the history, in
\* every queue subscribed before the publish, its publish call never raises,
\* the callbacks after the failing one are invoked with it, and once the call
\* is over it has returned.
C4_FailingCallbackIsolated ==
  \A t \in Topics : \A f \in 1..Len(Callbacks(subscribers, t)) :
    subscribers[t][f] = "fail" =>
      \A n \in 1..Len(cbLog[t][f]) :
        LET id == cbLog[t][f][n]
            k  == id[2]
        IN /\ id \notin raised
           /\ k > histBase[t] => id \in Ids(GetHistory(t, None))
           /\ \A q \in DOMAIN queues :
                (TopicOf(q) = t /\ subAt[q] < k) => Copies(q, id) = 1
           /\ \A p \in Procs : \A d \in 1..Len(stack[p]) :
                stack[p][d].msg.id = id =>
                  \A j \in (f + 1)..(stack[p][d].i - 1) : id \in Range(cbLog[t][j])
           /\ ~InFlight(id) =>
                /\ id \in returned
                /\ \A j \in (f + 1)..Len(subscribers[t]) :
                     cbAt[t][j] < k => id \in Range(cbLog[t][j])

\* a publish has returned although the first callback of its topic failed,
\* and the callback registered after the failing one was invoked
C4_Witness ==
  \E t \in Topics :
    /\ Len(Callbacks(subscribers, t)) = 2
    /\ subscribers[t][1] = "fail"
    /\ cbLog[t][1] # << >>
    /\ cbLog[t][1][1] \in returned
    /\ cbLog[t][1][1] \in Range(cbLog[t][2])


\* ------------------------------------------------------------- handler claims
\* the handle_error calls of the task at hand, the one in progress included
Attempts == IF eh.pc = "idle" THEN life ELSE Append(life, eh)

Count(c) == IF c.ctx.retry_count = None THEN 0 ELSE c.ctx.retry_count[1]

Finished(c) == c.pc \in {"return", "raise"}

\* max_retries and delay of the policy the agent of call c has
MaxRetriesOf(c) ==
  LET policy == retry_policies[c.ctx.agent_id]
  IN IF "max_retries" \in DOMAIN policy THEN policy.max_retries ELSE 3

DelayOf(c) ==
  LET policy == retry_policies[c.ctx.agent_id]
  IN IF "delay" \in DOMAIN policy THEN policy.delay ELSE 1

\* the task is handled from its first failure on: the first call came without
\* a retry_count, or with 0
Fresh == Attempts # << >> => Attempts[1].ctx.retry_count \in {None, Some(0)}

\* C5: with a retry policy (M, d) and no handler registered for the failure
\* kind, a call with retry_count k < M sleeps d * 2^k once and returns 'retry'
\* with retry_count k + 1 and the task id; a call with k >= M returns the
\* 'Max retries exceeded' error without sleeping.
C5_RetryDecision ==
  \A n \in 1..Len(Attempts) :
    LET c == Attempts[n]
        k == Count(c)
    IN (c.registered = "none" /\ c.hadPolicy) =>
         IF k < MaxRetriesOf(c)
         THEN /\ c.slept = <<DelayOf(c) * (2 ^ k)>>
              /\ c.notified = << >>
              /\ Finished(c) =>
                   /\ c.pc = "return"
                   /\ c.out.status = "retry"
                   /\ c.out.retry_count = k + 1
                   /\ c.out.task_id = c.ctx.task_id
         ELSE /\ Finished(c)
              /\ c.pc = "return"
              /\ c.slept = << >>
              /\ c.out = [status |-> "error", message |-> "Max retries exceeded",
                          task_id |-> c.ctx.task_id, agent_id |-> c.ctx.agent_id]

\* policy (3, 1): the delays were 1, 2, 4 and the fourth failure is terminal
C5_Witness ==
  /\ Len(life) = 4
  /\ "a1" \in DOMAIN retry_policies
  /\ retry_policies["a1"] = [max_retries |-> 3, delay |-> 1]
  /\ \A n \in 1..4 : life[n].registered = "none"
  /\ <<life[1].slept, life[2].slept, life[3].slept, life[4].slept>>
       = << <<1>>, <<2>>, <<4>>, << >> >>
  /\ life[4].ctx.retry_count = Some(3)
  /\ life[4].out.status = "error"

\* C6: while the caller passes back the retry_count of the previous outcome,
\* the retry counter never decreases and never exceeds max_retries, and every
\* 'retry' outcome carries a retry_count <= max_retries.
C6_RetryCounterBounded ==
  Fresh =>
    \A n \in 1..Len(Attempts) :
      LET c == Attempts[n]
      IN /\ c.hadPolicy => Count(c) <= MaxRetriesOf(c)
         /\ n > 1 => Count(Attempts[n - 1]) <= Count(c)
         /\ (Finished(c) /\ c.out.status = "retry") =>
              /\ Count(c) <= c.out.retry_count
              /\ c.hadPolicy => c.out.retry_count <= MaxRetriesOf(c)

\* the counter has reached max_retries = 3 by retries
C6_Witness ==
  /\ Fresh
  /\ Len(life) = 3
  /\ life[3].out.status = "retry"
  /\ life[3].out.retry_count = 3
  /\ MaxRetriesOf(life[3]) = 3

\* C7: a handle_error call sleeps at most once, and the caller's loop over an
\* always-failing task ends: the outcome after max_retries 'retry' outcomes is
\* not another 'retry', and 'Max retries exceeded' comes after exactly
\* max_retries of them.
C7_RetryLoopEnds ==
  /\ \A n \in 1..Len(Attempts) : Len(Attempts[n].slept) <= 1
  /\ Fresh =>
       \A n \in 1..Len(life) :
         LET c == life[n]
         IN c.hadPolicy =>
              /\ c.out.status = "retry" => n <= MaxRetriesOf(c)
              /\ (c.out.status = "error" /\ c.registered = "none") =>
                   /\ n = MaxRetriesOf(c) + 1
                   /\ \A m \in 1..(n - 1) : life[m].out.status = "retry"

\* policy max_retries = 1: one 'retry', then the terminal outcome
C7_Witness ==
  /\ Fresh
  /\ Len(life) = 2
  /\ life[1].out.status = "retry"
  /\ life[2].out.status = "error"
  /\ life[2].hadPolicy
  /\ MaxRetriesOf(life[2]) = 1

\* C8: a registered handler that returns decides the outcome, with no back-off
\* and no notification; one that raises is caught and the call goes on to the
\* retry policy if the agent has one, else to the notifications and the
\* terminal error outcome; its failure never reaches the caller.
C8_HandlerPrecedence ==
  \A n \in 1..Len(life) :
    LET c == life[n]
    IN /\ c.registered = "handles" =>
            /\ c.pc = "return"
            /\ c.out = [status |-> "handled", message |-> "Handled",
                        task_id |-> c.ctx.task_id]
            /\ c.slept = << >>
            /\ c.notified = << >>
       /\ c.registered = "raises" =>
            /\ c.pc = "return"
            /\ c.handler = "raised"
            /\ IF c.hadPolicy
               THEN /\ c.notified = << >>
                    /\ \/ c.out.status = "retry" /\ Len(c.slept) = 1
                       \/ c.out.status = "error" /\ c.slept = << >>
                            /\ c.out.message = "Max retries exceeded"
               ELSE /\ c.slept = << >>
                    /\ c.notified = [j \in 1..c.i |-> j]
                    /\ c.out.status = "error"
                    /\ c.out.message = c.ctx.message

\* one failure went to a handler that returned, the next one of the same task
\* to a handler that raised, and was then retried
C8_Witness ==
  \E n \in 1..Len(life) :
    /\ life[n].registered = "raises"
    /\ life[n].hadPolicy
    /\ life[n].out.status = "retry"

\* C9: with no handler for the failure kind and no retry policy for the agent,
\* every registered notification callback is invoked once, in registration
\* order, whether or not an earlier one failed, and the outcome is the terminal
\* error with the failure's kind, message, task id, agent id and timestamp.
C9_NotifyThenError ==
  \A n \in 1..Len(Attempts) :
    LET c == Attempts[n]
    IN (c.registered = "none" /\ ~c.hadPolicy) =>
         /\ c.slept = << >>
         /\ ~Finished(c) => c.notified = [j \in 1..(c.i - 1) |-> j]
         /\ Finished(c) =>
              /\ c.pc = "return"
              /\ c.notified = [j \in 1..c.i |-> j]
              /\ c.out = [status |-> "error",
                          error_type |-> c.ctx.error_type,
                          message |-> c.ctx.message,
                          timestamp |-> c.ctx.timestamp,
                          task_id |-> c.ctx.task_id,
                          agent_id |-> c.ctx.agent_id]

\* the first of two notification callbacks fails, the second was invoked, and
\* the terminal outcome was returned
C9_Witness ==
  /\ Len(life) = 1
  /\ life[1].registered = "none"
  /\ ~life[1].hadPolicy
  /\ Len(notification_callbacks) = 2
  /\ notification_callbacks[1] = "fail"
  /\ life[1].notified = <<1, 2>>
  /\ life[1].out.status = "error"

\* ------------------------------------------------------------- agent claims
\* C10: when execute_task returns, it emitted task_started before it entered
\* process_task, task_completed after process_task returned and before it
\* called publish, the result is on the agent's output topic with the caller's
\* annotations, and the value returned is the one process_task returned.
C10_SuccessPath ==
  \A p \in Procs :
    LET e == exec[p]
        t == OutputTopic(e.agent_id)
    IN e.pc = "returned" =>
         /\ e.trace =
              << [step |-> "task_started", agent_id |-> e.agent_id,
                  task_id |-> e.task_id, data |-> [input |-> e.task_data]],
                 [step |-> "process_task"],
                 [step |-> "process_task returned"],
                 [step |-> "task_completed", agent_id |-> e.agent_id,
                  task_id |-> e.task_id, data |-> [output |-> e.result]],
                 [step |-> "publish"],
                 [step |-> "return"] >>
         /\ e.value = e.result
         /\ e.msg \in returned
         /\ e.msg[1] = t
         /\ \E n \in 1..Len(GetHistory(t, None)) :
              LET m == GetHistory(t, None)[n]
              IN /\ m.id = e.msg
                 /\ m.topic = t
                 /\ m.content = e.result
                 /\ m.asl_tags = e.asl_context

\* an execute_task call has returned after a publish that waited for a callback
C10_Witness ==
  \E p \in Procs :
    /\ exec[p].pc = "returned"
    /\ cbLog[OutputTopic(exec[p].agent_id)] # << >>
    /\ exec[p].msg \in Range(cbLog[OutputTopic(exec[p].agent_id)][1])

\* C11: when process_task fails, execute_task emits the task_failed log unit
\* with the error before the failure reaches the caller, the caller gets that
\* same failure and no result, and execute_task never got to publish on the
\* agent's output topic for that task.
C11_FailurePath ==
  \A p \in Procs :
    LET e == exec[p]
    IN (e.pc # "idle" /\ e.failure # "none") =>
         /\ e.pc = "raised"
         /\ e.error = e.failure
         /\ e.value = "none"
         /\ e.msg = << >>
         /\ e.trace =
              << [step |-> "task_started", agent_id |-> e.agent_id,
                  task_id |-> e.task_id, data |-> [input |-> e.task_data]],
                 [step |-> "process_task"],
                 [step |-> "process_task raised"],
                 [step |-> "task_failed", agent_id |-> e.agent_id,
                  task_id |-> e.task_id,
                  data |-> [error |-> e.failure, task_data |-> e.task_data,
                            asl_context |-> e.asl_context]],
                 [step |-> "raise"] >>

\* process_task of an agent failed while another agent's result was published
C11_Witness ==
  \E p \in Procs :
    /\ exec[p].pc = "raised"
    /\ exec[p].failure = "ValueError"
    /\ calls[OutputTopic(exec[p].agent_id)] = << >>
    /\ \E t \in Topics : calls[t] # << >>

\* ------------------------------------------------------------- monitor claims
\* the alerts _check_alerts is to make for sample m, with the thresholds of
\* __init__: 80 for cpu and memory, 90 for disk
ExpectedAlerts(m) ==
  (IF m.cpu_percent > 80 THEN << <<"High CPU usage", m.cpu_percent>> >> ELSE << >>) \o
  (IF m.memory_percent > 80
   THEN << <<"High memory usage", m.memory_percent>> >> ELSE << >>) \o
  (IF m.disk_usage.percent > 90
   THEN << <<"High disk usage", m.disk_usage.percent>> >> ELSE << >>)

\* the sample of the current loop iteration has been evaluated: collect_metrics
\* returns in this step
Evaluated == mon.pc \in {"collecting", "alerting"} /\ mon'.pc = "sleeping"

\* C12: for every sample the monitor evaluates, each registered alert callback
\* is invoked exactly once, in order, with one message per exceeded threshold,
\* if cpu, memory or disk exceeds its threshold, and none is invoked if no
\* threshold is exceeded (cpu 85 alerts, cpu 50 and cpu 80 do not).
C12_AlertFanOut ==
  /\ [](mon.sample # << >> =>
          LET m == mon.sample[1]
          IN /\ ExpectedAlerts(m) = << >> => mon.invoked = << >>
             /\ mon.invoked =
                  [j \in 1..Len(mon.invoked) |->
                     [callback |-> j,
                      data |-> [timestamp |-> m.timestamp,
                                alerts |-> ExpectedAlerts(m), metrics |-> m]]])
  /\ [][Evaluated =>
          Len(mon'.invoked) = IF ExpectedAlerts(mon'.sample[1]) # << >>
                              THEN Len(alert_callbacks) ELSE 0]_vars

\* a sample with cpu 85 went to both callbacks, and the loop sleeps
C12_Witness ==
  /\ mon.pc = "sleeping"
  /\ mon.sample # << >>
  /\ mon.sample[1].cpu_percent = 85
  /\ mon.sample[1].memory_percent = 50
  /\ Len(alert_callbacks) = 2
  /\ Len(mon.invoked) = 2
  /\ mon.invoked[1].data.alerts = << <<"High CPU usage", 85>> >>

\* C13: when an alert callback fails, the failure is logged, the next callback
\* is invoked for the same sample or, after the last one, collect_metrics
\* returns and the loop sleeps for the interval: neither the back-off nor the
\* end of the loop follows.
C13_FailingAlertIsolated ==
  /\ [][(mon.pc = "alerting" /\ mon' # mon /\ alert_callbacks[mon.i] = "fail") =>
          /\ mon'.pc = IF mon.i < Len(alert_callbacks) THEN "alerting" ELSE "sleeping"
          /\ mon'.i = mon.i + 1
          /\ mon'.sample = mon.sample
          /\ mon'.logged = Append(mon.logged, "Alert callback failed")]_vars
  /\ [](mon.pc \in {"backoff", "raised"} => mon.invoked = << >>)

\* the first of two alert callbacks failed, the second was invoked, and the
\* loop is in its interval sleep
C13_Witness ==
  /\ mon.pc = "sleeping"
  /\ alert_callbacks = <<"fail", "ok">>
  /\ Len(mon.invoked) = 2
  /\ mon.logged = <<"Alert callback failed">>

\* C14: a sampling failure never ends the monitoring loop: it is logged, the
\* loop goes into the back-off sleep and from there back to the loop test, and
\* unless the running flag is cleared another sampling attempt follows.
C14_SamplingFailureRetried ==
  /\ [][(mon.pc = "collecting" /\ mon' # mon /\ mon'.sample = << >>) =>
          /\ mon'.pc = "backoff"
          /\ mon'.logged = <<"Error in monitoring loop">>]_vars
  /\ [][(mon.pc = "backoff" /\ mon' # mon) => mon'.pc = "loop"]_vars
  /\ [][(mon' # mon /\ mon'.pc \in {"returned", "raised"}) =>
          (mon.pc = "loop" /\ ~running /\ mon'.pc = "returned")]_vars
  /\ (mon.pc = "backoff") ~> (mon.pc = "collecting" \/ ~running)

\* a sampling attempt is under way after one that failed
C14_Witness ==
  /\ mon.pc = "collecting"
  /\ running
  /\ mon.sample = << >>
  /\ mon.logged = <<"Error in monitoring loop">>

\* C15: once the owner has cleared the running flag, it stays cleared and a
\* started start_monitoring returns, wherever the loop was when the flag was
\* cleared.
C15_StopReturns ==
  /\ [][~running => ~running']_vars
  /\ (~running /\ mon.pc # "idle") ~> (mon.pc = "returned")

\* the flag was cleared and the loop returned after a failed sampling
C15_Witness ==
  /\ mon.pc = "returned"
  /\ ~running
  /\ mon.logged = <<"Error in monitoring loop">>
  /\ system_metrics # << >>

StatusValues == {"unknown", "initialized", "active"}

\* C20: in every reachable monitor state the status of every stored
\* AgentMetrics record is one of a fixed closed set of status values,
\* whatever payloads update_agent_metrics was called with.
C20_StatusClosed ==
  \A a \in DOMAIN agent_metrics : agent_metrics[a].status \in StatusValues

\* ------------------------------------------------------------- history claims
\* the stored history of topic t
Stored(t) == IF t \in DOMAIN message_history THEN message_history[t] ELSE << >>

\* the most recent k of a list, in the list's order
MostRecent(h, k) ==
  LET n == Len(h)
      m == IF k < n THEN k ELSE n
  IN SubSeq(h, n - m + 1, n)

\* C17: get_history(topic, limit) returns, in publish order, the most recent
\* min(limit, n) of the topic's n messages for every limit given, all n when
\* no limit is given, and the empty list for a topic never published to.
C17_HistoryLimit ==
  \A t \in Topics :
    /\ GetHistory(t, None) = Stored(t)
    /\ \A k \in 0..(MaxPublish + 1) : GetHistory(t, Some(k)) = MostRecent(Stored(t), k)
    /\ calls[t] = << >> => GetHistory(t, None) = << >>

\* C18: clear_history(t) empties the history of topic t only and
\* clear_history() empties every history; neither changes the queues' contents
\* nor the queue and callback registrations, and what is published afterwards
\* is recorded and delivered as before.
C18_ClearHistoryFrame ==
  /\ [][\A t \in HistTopics \cup {NoTopic} :
          ClearHistory(t) =>
            /\ UNCHANGED <<queues, topics, subscribers>>
            /\ IF t = NoTopic
               THEN \A x \in Topics : GetHistory(x, None)' = << >>
               ELSE /\ GetHistory(t, None)' = << >>
                    /\ \A x \in Topics \ {t} :
                         GetHistory(x, None)' = GetHistory(x, None)]_vars
  /\ [](/\ \A t \in Topics :
             Brief(GetHistory(t, None)) = AcceptedAfter(t, histBase[t])
        /\ \A q \in DOMAIN queues :
             Brief(Stream(q)) = AcceptedAfter(TopicOf(q), subAt[q]))

\* a sampling iteration succeeds in this step: collect_metrics has its sample
Sampled == mon.pc = "collecting" /\ mon'.pc \in {"alerting", "sleeping"}

C21_HistoryOrdered ==
  /\ [](\A t \in Topics :
          /\ Brief(Stored(t)) = AcceptedAfter(t, histBase[t])
          /\ \A i, j \in 1..Len(Stored(t)) :
               i < j => Stored(t)[i].timestamp <= Stored(t)[j].timestamp)
  /\ [][\A t \in Topics :
          histBase'[t] = histBase[t] =>
            /\ Len(Stored(t)') >= Len(Stored(t))
            /\ SubSeq(Stored(t)', 1, Len(Stored(t))) = Stored(t)]_vars

\* the content the publish call of message m was given
Published(m) == calls[m.topic][m.id[2]].content

\* C22: each subscriber queue and the history hold their own copy of a
\* published message: whatever a consumer does to the message it took from one
\* queue, the message in another subscriber's queue and the message in the
\* topic's history are as they were published.
C22_DeliveredByValue ==
  /\ \A t \in Topics : \A i \in 1..Len(Stored(t)) :
       Stored(t)[i].content = Published(Stored(t)[i])
  /\ \A q \in DOMAIN queues : \A i \in 1..Len(queues[q]) :
       queues[q][i].content = Published(queues[q][i])

\* ------------------------------------------------------------- parser claims
\* the offset in the text at which piece s starts
Offset(ps, s) == Len(Flatten(SubSeq(ps, 1, s - 1)))

\* the tags parse() returned whose block starts at offset `start`
TagsAt(start) == SelectSeq(parser_tags, LAMBDA tag : tag.position.start = start)

RECURSIVE PairsIn(_)
PairsIn(ps) ==
  IF ps = << >> THEN 0 ELSE PairsIn(Front(ps)) + Len(ps[Len(ps)].pairs)

\* C23: for a text with N blocks of k key/value pairs each, parse returns
\* exactly N*k tags (k tags for each block, with the block's keys in order),
\* in block order, and a malformed block anywhere in the text does not reduce
\* the number of tags obtained from the other blocks.
C23_TagCount ==
  parsed =>
    /\ \A s \in 1..Len(parts) :
         parts[s].kind = "block" =>
           LET made == TagsAt(Offset(parts, s))
           IN /\ Len(made) = Len(parts[s].pairs)
              /\ \A i \in 1..Len(made) : made[i].tag_name = parts[s].pairs[i].key
    /\ (\A s \in 1..Len(parts) : parts[s].kind # "malformed")
         => Len(parser_tags) = PairsIn(parts)
    /\ \A i, j \in 1..Len(parser_tags) :
         i < j => parser_tags[i].position.start <= parser_tags[j].position.start

\* a numeric literal: decimal digits with at most one decimal point, with or
\* without a minus sign
Unsigned(text) == IF StartsWith(text, "-") THEN Tail(text) ELSE text

NumericLiteral(text) ==
  /\ \A i \in 1..Len(Unsigned(text)) : Unsigned(text)[i] \in DigitChars \cup {"."}
  /\ \E i \in 1..Len(Unsigned(text)) : Unsigned(text)[i] \in DigitChars
  /\ Cardinality({i \in 1..Len(text) : text[i] = "."}) <= 1

Signed(text, n) == IF StartsWith(text, "-") THEN 0 - n ELSE n

Quoted(text) ==
  /\ Len(text) >= 2
  /\ text[1] = text[Len(text)]
  /\ text[1] \in {"'", "\""}

\* the value the coercion order gives the value text
Coerced(text) ==
  IF NumericLiteral(text)
  THEN LET digits == Replace(Unsigned(text), ".")
           point  == Find(text, ".", 1)
       IN IF point = 0 THEN [type |-> "int", v |-> Signed(text, IntOf(digits))]
          ELSE LET r == Reduced(IntOf(digits), Len(text) - point)
               IN [type |-> "float", v |-> <<Signed(text, r.v[1]), r.v[2]>>]
  ELSE IF Lower(text) \in {<<"t", "r", "u", "e">>, <<"f", "a", "l", "s", "e">>}
  THEN [type |-> "bool", v |-> Lower(text)[1] = "t"]
  ELSE IF Quoted(text) THEN [type |-> "str", v |-> SubSeq(text, 2, Len(text) - 1)]
  ELSE [type |-> "str", v |-> text]

\* C24: the value of every tag follows the coercion order: a numeric literal
\* becomes an integer if it has no decimal point and a float otherwise; else
\* true/false in any letter case becomes a boolean; else a value in matching
\* single or double quotes becomes the string without the quotes; else the raw
\* text is kept as a string.
C24_CoercionOrder ==
  parsed =>
    \A s \in 1..Len(parts) :
      (parts[s].kind = "block" /\ Len(parts[s].pairs) = 1) =>
        \A i \in 1..Len(parser_tags) :
          parser_tags[i].position.start = Offset(parts, s) =>
            parser_tags[i].value = Coerced(parts[s].pairs[1].value)

\* C25: every tag carries the position of its enclosing block: the offsets
\* are those of the block's brackets, the tags of one block have the same
\* start and end, start < end, and line is 1 plus the number of newlines
\* before the block's start.
C25_PositionOfBlock ==
  parsed =>
    /\ \A i \in 1..Len(parser_tags) :
         LET pos == parser_tags[i].position
         IN /\ pos.start < pos.end
            /\ pos.end <= Len(content)
            /\ content[pos.start + 1] = "{"
            /\ content[pos.end] = "}"
            /\ \A k \in (pos.start + 1)..(pos.end - 1) : content[k] # "}"
            /\ pos.line = 1 + Cardinality({k \in 1..pos.start : content[k] = "\n"})
            /\ \E s \in 1..Len(parts) :
                 /\ Offset(parts, s) = pos.start
                 /\ Offset(parts, s) + Len(parts[s].text) = pos.end
    /\ \A i, j \in 1..Len(parser_tags) :
         origin[i] = origin[j] =>
           parser_tags[i].position = parser_tags[j].position

\* the two tags of a block on the second line of a text
C25_Witness ==
  /\ parsed
  /\ Len(parser_tags) = 2
  /\ origin = <<1, 1>>
  /\ parser_tags[1].tag_name # parser_tags[2].tag_name
  /\ parser_tags[1].position = [start |-> 1, end |-> 15, line |-> 2]
  /\ parser_tags[2].position = [start |-> 1, end |-> 15, line |-> 2]

\* ------------------------------------------------------------- concurrency claims
\* every execute_task call made so far is over
AllDone == \A p \in Procs : exec[p].pc = "idle" /\ stack[p] = << >>

\* the calls of agent a that ended as `how`
Outcomes(a, how) == {o \in outcomes : o.agent_id = a /\ o.outcome = how}

\* C26: once all the execute_task calls that ran concurrently on one bus are
\* over, the history of each agent's output topic has exactly one message for
\* every call of the agent that returned, with the result returned, none for a
\* call that failed, and (unless a callback publishes to the topic itself) no
\* other message.
C26_ConcurrentCalls ==
  AllDone =>
    \A a \in Agents :
      LET t == OutputTopic(a)
          h == GetHistory(t, None)
      IN /\ \A o \in Outcomes(a, "returned") :
              /\ Cardinality({n \in 1..Len(h) : h[n].id = o.msg}) = 1
              /\ \A n \in 1..Len(h) : h[n].id = o.msg => h[n].content = o.value
         /\ \A o \in Outcomes(a, "raised") :
              \A n \in 1..Len(h) : h[n].id # o.msg
         /\ "republish" \notin Range(Callbacks(subscribers, t)) =>
              Len(h) = Cardinality(Outcomes(a, "returned"))

\* two calls of one agent overlapped; one returned, the other failed in
\* process_task, and both are over
C26_Witness ==
  /\ AllDone
  /\ \E a \in Agents :
       /\ \E o \in Outcomes(a, "returned") : o.overlapped
       /\ \E o \in Outcomes(a, "raised") : o.msg = << >>
       /\ Len(GetHistory(OutputTopic(a), None)) = 1

\* the calls of agent a that failed in process_task and are over
FailedBefore(a) == {o \in Outcomes(a, "raised") : o.msg = << >>}

\* C27: the steps of an execute_task call whose process_task fails, its entry
\* and its failure, leave the bus (queue lists, queue contents, callbacks,
\* history, publish calls in progress) and the agent's status as they were;
\* and a call of an agent that returns after such a failure of the same agent
\* has the value process_task returned, which its publish, completed by then,
\* put on the agent's output topic.
C27_RecoveryAfterFailure ==
  /\ [][\A p \in Procs :
          (\/ exec[p].pc = "idle" /\ exec'[p].pc = "processing"
           \/ exec[p].pc = "processing" /\ exec'[p].pc = "raised"
                /\ exec'[p].failure # "none")
          => /\ UNCHANGED <<topics, queues, subscribers, message_history, stack>>
             /\ status' = status]_vars
  /\ [](\A p \in Procs :
          LET e == exec[p]
              h == GetHistory(OutputTopic(e.agent_id), None)
          IN (e.pc = "returned" /\ FailedBefore(e.agent_id) # {}) =>
               /\ e.value = e.result
               /\ e.failure = "none" /\ e.error = "none"
               /\ e.msg \in returned
               /\ ~InFlight(e.msg)
               /\ \E n \in 1..Len(h) : h[n].id = e.msg /\ h[n].content = e.value
               /\ status[e.agent_id] = "initialized")

\* a call of an agent has returned after a call of the same agent had failed in
\* process_task
C27_Witness ==
  \E p \in Procs :
    /\ exec[p].pc = "returned"
    /\ FailedBefore(exec[p].agent_id) # {}
    /\ exec[p].value = "x"
    /\ Len(GetHistory(OutputTopic(exec[p].agent_id), None)) = 1

\* the queues subscribed to topic t
QueuesOf(t) == IF t \in DOMAIN topics THEN Range(topics[t]) ELSE {}

\* C28: when execute_task has returned, its publish on the agent's output
\* topic is complete: the message is in the history and in every queue of the
\* topic, every callback of the topic was invoked with it and has returned or
\* failed, and publish itself has returned; and a call whose publish is
\* waiting for callbacks keeps its result, does not fail, and goes nowhere but
\* to its return, with that result.
C28_ReturnAfterPublish ==
  /\ [](\A p \in Procs :
          LET e == exec[p]
              t == OutputTopic(e.agent_id)
          IN e.pc = "returned" =>
               /\ e.msg \in Ids(GetHistory(t, None))
               /\ \A q \in QueuesOf(t) : e.msg \in Ids(Stream(q))
               /\ \A i \in 1..Len(Callbacks(subscribers, t)) :
                    e.msg \in Range(cbLog[t][i])
               /\ ~InFlight(e.msg)
               /\ e.msg \in returned
               /\ e.value = e.result)
  /\ [][\A p \in Procs :
          exec[p].pc = "publishing" =>
            /\ exec[p].msg \notin raised
            /\ exec'[p].pc \in {"publishing", "returned"}
            /\ exec'[p].result = exec[p].result]_vars

\* a call has returned whose publish put the message in a queue and waited for
\* a callback that failed
C28_Witness ==
  \E p \in Procs :
    LET t == OutputTopic(exec[p].agent_id)
    IN /\ exec[p].pc = "returned"
       /\ QueuesOf(t) # {}
       /\ Callbacks(subscribers, t) = <<"fail">>
       /\ exec[p].msg \in Range(cbLog[t][1])

\* ------------------------------------------------------------- frame claims
\* a publish(t, ...) call is made in this step
Publishing(t) == Len(calls'[t]) > Len(calls[t])

\* C29: a publish(t, ...) call leaves the history of every other topic, every
\* queue not subscribed to t and the invocations of the callbacks of every
\* other topic as they were, and a queue it changes gets the one message of
\* topic t; a callback is invoked only with a message of a publish to its own
\* topic that is in progress; so histories, queues and callbacks hold messages
\* of their own topic only.
C29_TopicIsolation ==
  /\ [][\A t \in Topics :
          Publishing(t) =>
            /\ \A u \in Topics \ {t} :
                 /\ GetHistory(u, None)' = GetHistory(u, None)
                 /\ cbLog'[u] = cbLog[u]
            /\ \A q \in DOMAIN queues :
                 queues'[q] # queues[q] =>
                   /\ q \in QueuesOf(t)
                   /\ Len(queues'[q]) = Len(queues[q]) + 1
                   /\ SubSeq(queues'[q], 1, Len(queues[q])) = queues[q]
                   /\ queues'[q][Len(queues'[q])].id = <<t, Len(calls'[t])>>
                   /\ queues'[q][Len(queues'[q])].topic = t]_vars
  /\ [][\A u \in Topics : \A i \in 1..Len(cbLog[u]) :
          cbLog'[u][i] # cbLog[u][i] =>
            \E id \in Ids(GetHistory(u, None)) :
              /\ cbLog'[u][i] = Append(cbLog[u][i], id)
              /\ id[1] = u
              /\ InFlight(id)]_vars
  /\ [](\A t \in DOMAIN message_history :
          \A n \in 1..Len(message_history[t]) :
            /\ message_history[t][n].topic = t
            /\ message_history[t][n].id[1] = t)
  /\ [](\A q \in DOMAIN queues :
          \A n \in 1..Len(Stream(q)) : Stream(q)[n].topic = TopicOf(q))
  /\ [](\A t \in Topics : \A i \in 1..Len(cbLog[t]) :
          \A id \in Range(cbLog[t][i]) : id[1] = t)

\* both output topics have a message; a queue of the one topic holds that
\* topic's message and a callback of the other was invoked with the other's
C29_Witness ==
  /\ Len(GetHistory("a1_output", None)) = 1
  /\ Len(GetHistory("a2_output", None)) = 1
  /\ \E q \in QueuesOf("a1_output") : Ids(queues[q]) = {<<"a1_output", 1>>}
  /\ Len(cbLog["a2_output"]) = 1
  /\ cbLog["a2_output"][1] = << <<"a2_output", 1>> >>

\* a step of handle_error: the call starts, goes on or returns
HandlerStep == eh' # eh \/ Len(life') > Len(life)

\* C30: no step of handle_error changes the handler registry, the retry
\* policies or the notification callbacks; the ErrorContext a call was given,
\* retry_count included, is the same at every point of the call and when it
\* returns; and the advanced count is in the 'retry' outcome only: retry_count
\* of the context plus one.
C30_HandlingReadsOnly ==
  /\ [][HandlerStep =>
          UNCHANGED <<error_handlers, retry_policies, notification_callbacks>>]_vars
  /\ [][eh.pc # "idle" =>
          /\ eh'.pc # "idle" => eh'.ctx = eh.ctx
          /\ Len(life') > Len(life) => life'[Len(life')].ctx = eh.ctx]_vars
  /\ [][\A et \in FailingTypes, a \in FailingAgents, task \in Tasks,
           k \in {None} \cup {Some(n) : n \in 0..MaxRetryCount} :
          HandleError(et, a, task, k) =>
            /\ eh'.pc # "idle" => eh'.ctx = ErrorContext(et, a, task, k)
            /\ eh'.pc = "idle" => life'[Len(life')].ctx = ErrorContext(et, a, task, k)]_vars
  /\ [](\A n \in 1..Len(Attempts) :
          Attempts[n].out.status = "retry" =>
            Attempts[n].out.retry_count = Count(Attempts[n]) + 1)

\* a call that was given retry_count 1 has slept and returned 'retry' with
\* count 2, and its context still says 1
C30_Witness ==
  /\ eh.pc = "idle"
  /\ life # << >>
  /\ life[Len(life)].out.status = "retry"
  /\ life[Len(life)].out.retry_count = 2
  /\ life[Len(life)].ctx.retry_count = Some(1)
  /\ life[Len(life)].slept # << >>

\* ------------------------------------------------------------- callback order
\* C31: every callback of a topic is invoked with the topic's messages in the
\* order in which they are in the topic's history, also when a callback
\* publishes to its own topic and when publish calls overlap.
C31_CallbackOrder ==
  \A t \in DOMAIN message_history :
    \A i \in 1..Len(cbStart[t]) :
      LET log == cbStart[t][i]
          h   == GetHistory(t, None)
      IN \A a, b \in 1..Len(log) :
           (a < b /\ log[a] \in Ids(h) /\ log[b] \in Ids(h)) =>
             Pos(h, log[a]) < Pos(h, log[b])

\* ------------------------------------------------------------- log units
\* the log units of kind `event` in the trace of a call
Units(trace, event) == SelectSeq(trace, LAMBDA u : u.step = event)

\* C32: an execute_task call that is over has emitted task_started once, as
\* the first thing it did, and then one unit that says how it ended:
\* task_completed or task_failed, never both, whatever process_task and the
\* publish on the bus did.
C32_OneTerminalUnit ==
  \A p \in Procs :
    LET e == exec[p]
    IN e.pc \in {"returned", "raised"} =>
         /\ Len(Units(e.trace, "task_started")) = 1
         /\ e.trace[1].step = "task_started"
         /\ Len(Units(e.trace, "task_completed")) +
              Len(Units(e.trace, "task_failed")) = 1

\* ------------------------------------------------------------- notifications
\* C33: a handle_error call for an agent that has a retry policy invokes no
\* notification callback, whether it returns 'retry' or 'Max retries
\* exceeded'; a call that has invoked one is for an agent without a policy,
\* had no handler that handled the failure, did not sleep, and ends in the
\* terminal error outcome.
C33_NotifyOnlyWithoutPolicy ==
  \A n \in 1..Len(Attempts) :
    LET c == Attempts[n]
    IN /\ c.hadPolicy =>
            /\ c.notified = << >>
            /\ Finished(c) => c.out.status \in {"retry", "error", "handled"}
       /\ c.out.status = "retry" => c.notified = << >>
       /\ c.out = ExhaustedOutcome(c.ctx) => c.notified = << >>
       /\ c.notified # << >> =>
            /\ ~c.hadPolicy
            /\ c.handler \in {"none", "raised"}
            /\ c.slept = << >>
            /\ Finished(c) => c.out = ErrorOutcome(c.ctx)

\* with a notification callback registered, a failure of an agent with a
\* policy was retried and then ran out of retries, and no callback was invoked
C33_Witness ==
  /\ eh.pc = "idle"
  /\ notification_callbacks # << >>
  /\ Len(life) >= 2
  /\ \A n \in 1..Len(life) : life[n].hadPolicy /\ life[n].notified = << >>
  /\ life[1].out.status = "retry"
  /\ life[Len(life)].out = ExhaustedOutcome(life[Len(life)].ctx)

\* ------------------------------------------------------------- delays
\* C34: a 'retry' outcome for retry_count k under a policy with base delay d
\* has next_retry_delay d * 2^(k + 1); and when the caller calls again with
\* the count of that outcome and the handler backs off again, the delay it
\* sleeps is that next_retry_delay.
C34_NextDelayAgrees ==
  \A n \in 1..Len(Attempts) :
    LET c == Attempts[n]
    IN c.out.status = "retry" =>
         /\ c.out.next_retry_delay = DelayOf(c) * Pow2(Count(c) + 1)
         /\ c.slept = <<DelayOf(c) * Pow2(Count(c))>>
         /\ n < Len(Attempts) =>
              LET d == Attempts[n + 1]
              IN /\ Count(d) = Count(c) + 1
                 /\ d.slept # << >> => d.slept = <<c.out.next_retry_delay>>
                 /\ (d.handler \in {"none", "raised"} /\ Count(d) < MaxRetriesOf(d))
                      => d.slept = <<c.out.next_retry_delay>>

\* under a policy with base delay 2, the call with count 1 was told 8 and the
\* call with count 2 has slept 8
C34_Witness ==
  \E n \in 1..Len(Attempts) :
    /\ n < Len(Attempts)
    /\ DelayOf(Attempts[n]) = 2
    /\ Count(Attempts[n]) = 1
    /\ Attempts[n].out.status = "retry"
    /\ Attempts[n].out.next_retry_delay = 8
    /\ Attempts[n + 1].slept = <<8>>

\* ------------------------------------------------------------- default bus
\* C35: a queue returned by subscribe(topic) of the default bus holds every
\* message published to the topic after the subscribe call, in order, so a
\* subscriber to an agent's output topic has the results the agent published.
C35_DefaultBusDelivers ==
  \A q \in DOMAIN mb_queues :
    LET t == mb_queues[q].topic
    IN mb_queues[q].items =
         SubSeq(mb_topics[t], mb_queues[q].at + 1, Len(mb_topics[t]))

\* ------------------------------------------------------------- stopping
\* C36: once the running flag is cleared it stays cleared, the list of samples
\* is as long as it was at the clearing, and start_monitoring is not inside
\* collect_metrics, wherever the loop was when the flag was cleared; a
\* start_monitoring call that begins after the clearing has taken no sample
\* and does nothing but return.
C36_NoSampleAfterStop ==
  /\ [](~running =>
          /\ stoppedAt # << >>
          /\ Len(system_metrics) = stoppedAt[1].samples
          /\ mon.pc # "collecting"
          /\ stoppedAt[1].pc = "idle" =>
               /\ mon.pc \in {"idle", "loop", "returned"}
               /\ mon.sample = << >>
               /\ mon.invoked = << >>)
  /\ [][~running => (~running' /\ system_metrics' = system_metrics)]_vars

\* the flag was cleared while an alert callback was awaited, after the first
\* sample; the loop has returned and there is still one sample
C36_Witness ==
  /\ ~running
  /\ stoppedAt = <<[pc |-> "alerting", samples |-> 1]>>
  /\ mon.pc = "returned"
  /\ Len(system_metrics) = 1

\* ------------------------------------------------------------- accessors
\* C37: get_agent_metrics(a) for an agent that update_agent_metrics was never
\* called for returns an empty result: it does not fail.
C37_UnknownAgentEmpty ==
  \A a \in Agents :
    a \notin DOMAIN agent_metrics => GetAgentMetrics(a) = << >>

====
